---------------------------- MODULE Spec2Model ----------------------------
(***************************************************************************)
(* Listing aggregation and reconciliation pipeline of flat-scrapping:      *)
(* scripts/scrape-immobilier.mjs (the scan) and scripts/serve-dashboard.mjs *)
(* (the REST operations on the persisted tracker).                         *)
(*                                                                         *)
(* Encoding of JavaScript values:                                          *)
(*   numbers   integers; rooms are kept in tenths (2.5 rooms = 25)         *)
(*   null      Null  (-1) for numbers, NullStr for strings                 *)
(*   undefined Undef (-2) for numbers, "undefined" for pinned              *)
(*   strings   notes are sequences of tokens, see mergeNotesWithEntryDate  *)
(*   time      a day counter; a timestamp is the day it was taken; the     *)
(*             bookkeeping field updatedAt, which nothing reads, is left   *)
(*             out                                                         *)
(***************************************************************************)
EXTENDS Integers, Sequences, FiniteSets, Bags, TLC

\* ------------------------------------------------------------------ bounds
MaxScans == 3        \* scans in one run
MaxEnvEvents == 1    \* API writes and network outages in one run
MaxBatch == 2        \* listings the adapters return in one scan

\* ------------------------------------------------- JavaScript null/undefined
Null == 0 - 1
Undef == 0 - 2
NullStr == "null"

IsNullish(v) == v = Null \/ v = Undef

Max(a, b) == IF a >= b THEN a ELSE b
Min(a, b) == IF a <= b THEN a ELSE b

RECURSIVE SeqToSet(_)
SeqToSet(s) == IF s = <<>> THEN {} ELSE {Head(s)} \cup SeqToSet(Tail(s))

\* --------------------------------------------------------------- constants
STATUSES == <<"A contacter", "Visite", "Dossier", "Relance", "Accepte", "Refuse", "Sans reponse">>

SOURCE_PRIORITY(source) ==
    CASE source = "immobilier.ch" -> 30
      [] source = "naef.ch" -> 27
      [] source = "bernard-nicod.ch" -> 26
      [] source = "flatfox.ch" -> 20
      [] source = "retraitespopulaires.ch" -> 18
      [] source = "anibis.ch" -> 15
      [] OTHER -> 0

TrackedBonus == 1000
MaxImageRank == 6

\* config.filters defaults read by the scan
DefaultMaxTotalChf == 1400
DefaultHardBudget == 1450
DefaultPearlCap == 1550
DefaultMinRooms10 == 20
DefaultMissingScans == 2
DefaultMaxPublishedAgeDays == 30

\* ---------------------------------------------------------- toPositiveNumber
toPositiveNumber(v) == IF IsNullish(v) \/ v <= 0 THEN Null ELSE v

toNumberOrNull(v) == IF IsNullish(v) THEN Null ELSE v

toDurationMinutesOrNull(v) ==
    LET n == toNumberOrNull(v) IN IF n # Null /\ n > 0 THEN n ELSE Null

\* x ?? y
Coalesce(x, y) == IF IsNullish(x) THEN y ELSE x

\* ------------------------------------------------------------ normalizeStatus
normalizeStatus(status) ==
    LET s == status IN
    IF s = "" \/ s = NullStr \/ s = "A contacter" THEN "A contacter"
    ELSE IF s \in {"Visite", "Visite demandee", "Visite planifiee", "Visite (fait)"} THEN "Visite"
    ELSE IF s \in {"Dossier", "Dossier pret a envoyer", "Dossier envoye"} THEN "Dossier"
    ELSE IF s \in {"Relance", "Relance J+2"} THEN "Relance"
    ELSE IF s \in {"Accepte", "Refuse", "Sans reponse"} THEN s
    ELSE "A contacter"

\* --------------------------------------------------- mergeNotesWithEntryDate
\* Notes are sequences of tokens: "E" is the word Entree/Entrée in any case,
\* ":" a colon, "s" a blank other than a newline, "n" a newline, "x" and "V"
\* other text ("V" is a sale keyword such as "vente"), "D1"/"D2" a date
\* dd.mm.2026.
DateTokens == {"D1", "D2"}

IsWs(t) == t \in {"s", "n"}

\* /^\d{2}\.\d{2}\.2026$/
isStrictEntryDate(v) == v \in DateTokens

RECURSIVE SkipWs(_, _)
SkipWs(cur, k) ==
    IF k <= Len(cur) /\ IsWs(cur[k]) THEN SkipWs(cur, k + 1) ELSE k

RECURSIVE LineEnd(_, _)
LineEnd(cur, k) ==
    IF k + 1 <= Len(cur) /\ cur[k + 1] # "n" THEN LineEnd(cur, k + 1) ELSE k

\* /Entr(?:é|e)e\s*:[^\n]*/i matches starting at position i
EntryMatchAt(cur, i) ==
    /\ cur[i] = "E"
    /\ LET j == SkipWs(cur, i + 1) IN j <= Len(cur) /\ cur[j] = ":"

\* leftmost match, 0 when there is none
EntryMatchStart(cur) ==
    LET hits == {i \in 1..Len(cur) : EntryMatchAt(cur, i)} IN
    IF hits = {} THEN 0 ELSE CHOOSE i \in hits : \A k \in hits : i <= k

\* String.prototype.replace without the g flag: first match only
ReplaceEntry(cur, repl) ==
    LET i == EntryMatchStart(cur) IN
    IF i = 0 THEN cur
    ELSE LET e == LineEnd(cur, SkipWs(cur, i + 1)) IN
         SubSeq(cur, 1, i - 1) \o repl \o SubSeq(cur, e + 1, Len(cur))

\* .replace(/\n{2,}/g, '\n')
RECURSIVE CollapseNewlines(_)
CollapseNewlines(cur) ==
    IF Len(cur) < 2 THEN cur
    ELSE IF cur[1] = "n" /\ cur[2] = "n" THEN CollapseNewlines(Tail(cur))
    ELSE <<cur[1]>> \o CollapseNewlines(Tail(cur))

RECURSIVE TrimLeft(_)
TrimLeft(cur) == IF cur # <<>> /\ IsWs(Head(cur)) THEN TrimLeft(Tail(cur)) ELSE cur

RECURSIVE TrimRight(_)
TrimRight(cur) ==
    IF cur # <<>> /\ IsWs(cur[Len(cur)]) THEN TrimRight(SubSeq(cur, 1, Len(cur) - 1)) ELSE cur

Trim(cur) == TrimRight(TrimLeft(cur))

EntryLine(moveInDate) == <<"E", "s", ":", "s", moveInDate>>

mergeNotesWithEntryDate(notes, moveInDate) ==
    LET current == notes IN
    IF moveInDate = NullStr
    THEN Trim(CollapseNewlines(ReplaceEntry(current, <<>>)))
    ELSE IF EntryMatchStart(current) # 0
         THEN Trim(ReplaceEntry(current, EntryLine(moveInDate)))
         ELSE IF current # <<>>
              THEN Trim(current \o <<"n">> \o EntryLine(moveInDate))
              ELSE EntryLine(moveInDate)

\* Lines of a note (split on newline)
RECURSIVE SplitLines(_)
SplitLines(cur) ==
    LET nl == {i \in 1..Len(cur) : cur[i] = "n"} IN
    IF nl = {} THEN <<cur>>
    ELSE LET i == CHOOSE k \in nl : \A m \in nl : k <= m IN
         <<SubSeq(cur, 1, i - 1)>> \o SplitLines(SubSeq(cur, i + 1, Len(cur)))

\* ------------------------------------------------------ normalizeAreaToken
\* normalizeKeyText + saint->st + trailing canton code stripped, on the area
\* strings that occur in the model.
normalizeAreaToken(value) ==
    CASE value = "Vevey" -> "vevey"
      [] value = "Vevey VD" -> "vevey"
      [] value = "Montreux" -> "montreux"
      [] OTHER -> ""

\* config.areas is a set of labels
buildTargetAreaSet(areas) == {normalizeAreaToken(a) : a \in areas} \ {""}

isTargetAreaCity(city, targetAreaSet) ==
    IF targetAreaSet = {} THEN TRUE
    ELSE LET key == normalizeAreaToken(city) IN
         IF key = "" THEN FALSE ELSE key \in targetAreaSet

\* --------------------------------------------------- buildAddressDedupKey
\* One comma-separated part of an address after normalizeKeyText, removal of
\* four-digit postal codes and of the token "ch".
NormalizeAddressPart(part) ==
    CASE part = "Rue du Lac 1" -> "rue du lac 1"
      [] part = "rue du lac 1" -> "rue du lac 1"
      [] part = "1800 Vevey" -> "vevey"
      [] part = "Av. Gare 2" -> "av gare 2"
      [] part = "1820 Montreux" -> "montreux"
      [] part = "CH" -> ""
      [] OTHER -> ""

RECURSIVE PartsBag(_)
PartsBag(parts) ==
    IF parts = <<>> THEN EmptyBag
    ELSE LET k == NormalizeAddressPart(Head(parts)) IN
         IF k = "" THEN PartsBag(Tail(parts))
         ELSE SetToBag({k}) (+) PartsBag(Tail(parts))

\* The sorted, "|"-joined parts are represented by the bag of the parts.
buildAddressDedupKey(item) ==
    LET areaKey == normalizeAreaToken(item.area)
        normalizedParts == PartsBag(item.address) IN
    IF areaKey # "" /\ ~BagIn(areaKey, normalizedParts)
    THEN normalizedParts (+) SetToBag({areaKey})
    ELSE normalizedParts

\* Number.isFinite(Number(v)): Number(null) is 0, Number(undefined) is NaN
IsFiniteNumber(v) == v # Undef
NumberOf(v) == IF v = Null THEN 0 ELSE v

\* Math.floor of a value kept in tenths
FloorTenths(r10) == r10 \div 10
\* Math.round(x / 5) * 5 and Math.round(x / 50) * 50 for x >= 0
RoundTo5(x) == ((2 * x + 5) \div 10) * 5
RoundTo50(x) == ((x + 25) \div 50) * 50

NoKey == <<>>

buildCrossSourceDedupKey(item) ==
    LET address == buildAddressDedupKey(item) IN
    IF address = EmptyBag THEN NoKey
    ELSE LET rooms == IF IsFiniteNumber(item.rooms) THEN FloorTenths(NumberOf(item.rooms)) ELSE Undef
             surface == IF IsFiniteNumber(item.surfaceM2) THEN RoundTo5(NumberOf(item.surfaceM2)) ELSE Undef
             price == IF IsFiniteNumber(item.totalChf) /\ NumberOf(item.totalChf) > 0
                      THEN RoundTo50(NumberOf(item.totalChf)) ELSE Undef IN
         IF rooms = Undef /\ surface = Undef /\ price = Undef THEN NoKey
         ELSE <<address, rooms, surface, price>>

\* ------------------------------------------------------ listingQualityRank
\* trackedIds is the key set of trackerMap
\* Mutant: the rank without the bonus of an id already in the tracker
listingQualityRankUntracked(item, trackedIds) ==
    SOURCE_PRIORITY(item.source)
    + Min(item.imageCount, MaxImageRank)
    + (IF toPositiveNumber(item.surfaceM2) # Null THEN 2 ELSE 0)
    + (IF toPositiveNumber(item.totalChf) # Null THEN 2 ELSE 0)
    + (IF item.priceRawParses THEN 1 ELSE 0)

listingQualityRank(item, trackedIds) ==
    (IF item.id \in trackedIds THEN TrackedBonus ELSE 0)
    + SOURCE_PRIORITY(item.source)
    + Min(item.imageCount, MaxImageRank)
    + (IF toPositiveNumber(item.surfaceM2) # Null THEN 2 ELSE 0)
    + (IF toPositiveNumber(item.totalChf) # Null THEN 2 ELSE 0)
    + (IF item.priceRawParses THEN 1 ELSE 0)

\* ------------------------------------------------ dedupeCrossSourceListings
\* [...new Set(seq)]: first occurrences, in order
RECURSIVE UniqueSeq(_)
UniqueSeq(q) ==
    IF q = <<>> THEN <<>>
    ELSE LET r == UniqueSeq(SubSeq(q, 1, Len(q) - 1)) IN
         IF q[Len(q)] \in SeqToSet(r) THEN r ELSE Append(r, q[Len(q)])

\* position in the Map byKey (a sequence in insertion order) of the key, or 0
KeyIndex(byKey, key) ==
    LET hits == {i \in 1..Len(byKey) : buildCrossSourceDedupKey(byKey[i]) = key} IN
    IF hits = {} THEN 0 ELSE CHOOSE i \in hits : TRUE

\* The loop of dedupeCrossSourceListings; byKey and passthrough are its locals.
RECURSIVE DedupeLoop(_, _, _, _)
DedupeLoop(items, trackedIds, byKey, passthrough) ==
    IF items = <<>> THEN byKey \o passthrough
    ELSE
      LET item == Head(items)
          key == buildCrossSourceDedupKey(item)
          fresh == [item EXCEPT !.duplicateSources = <<item.source>>] IN
      IF key = NoKey
      THEN DedupeLoop(Tail(items), trackedIds, byKey, Append(passthrough, fresh))
      ELSE
        LET i == KeyIndex(byKey, key) IN
        IF i = 0
        THEN DedupeLoop(Tail(items), trackedIds, Append(byKey, fresh), passthrough)
        ELSE
          LET existing == byKey[i]
              keepIncoming == listingQualityRank(item, trackedIds)
                                > listingQualityRank(existing, trackedIds)
              winner == IF keepIncoming THEN item ELSE existing
              combined == UniqueSeq(existing.duplicateSources
                                      \o <<item.source, winner.source>>) IN
          DedupeLoop(Tail(items), trackedIds,
                     [byKey EXCEPT ![i] = [winner EXCEPT !.duplicateSources = combined]],
                     passthrough)

dedupeCrossSourceListings(items, trackedIds) ==
    DedupeLoop(items, trackedIds, <<>>, <<>>)

\* --------------------------------------------- stage 1: dedupById (main)
IdIndex(q, id) ==
    LET hits == {i \in 1..Len(q) : q[i].id = id} IN
    IF hits = {} THEN 0 ELSE CHOOSE i \in hits : \A k \in hits : i <= k

\* Mutant: on equal ranks the later occurrence replaces the earlier one
KeepIncomingOnTie(incomingRank, existingRank) == incomingRank >= existingRank

\* incomingRank > existingRank ? item : existing
KeepIncoming(incomingRank, existingRank) == incomingRank > existingRank

RECURSIVE DedupByIdLoop(_, _, _)
DedupByIdLoop(scraped, trackedIds, dedupById) ==
    IF scraped = <<>> THEN dedupById
    ELSE
      LET item == Head(scraped)
          i == IdIndex(dedupById, item.id) IN
      IF i = 0
      THEN DedupByIdLoop(Tail(scraped), trackedIds, Append(dedupById, item))
      ELSE
        LET existing == dedupById[i]
            incomingRank == listingQualityRank(item, trackedIds)
            existingRank == listingQualityRank(existing, trackedIds) IN
        DedupByIdLoop(Tail(scraped), trackedIds,
                      [dedupById EXCEPT ![i] = IF KeepIncoming(incomingRank, existingRank)
                                               THEN item ELSE existing])

\* ------------------------------------------------------ eligibility engine
\* The text of objectType/title is abstracted to item.kind:
\*   "appartement", "studio", "chambre" (an excluded keyword), "parking".
LooksResidential(item) == item.kind \in {"appartement", "studio"}

isLikelyResidentialListing(item) ==
    IF item.kind = "parking" THEN FALSE
    ELSE IF LooksResidential(item) THEN TRUE
    ELSE toPositiveNumber(item.rooms) # Null

isExcludedType(item, config) == item.kind \in config.excludedObjectTypeKeywords

isSizeEligible(item, config) ==
    LET minRooms == config.minRoomsPreferred
        minSurface == config.minSurfaceM2Preferred
        minSurfaceFallback == config.minSurfaceM2Fallback
        studioAllowed == config.allowStudioTransition
        rooms == Coalesce(item.rooms, 0)
        surface == Coalesce(item.surfaceM2, 0)
        hasSurface == ~IsNullish(item.surfaceM2) /\ item.surfaceM2 > 0
        meetsRooms == rooms >= minRooms IN
    IF rooms <= 0 THEN studioAllowed /\ LooksResidential(item)
    ELSE IF ~meetsRooms /\ studioAllowed THEN TRUE
    ELSE IF minSurfaceFallback > 0
         THEN meetsRooms \/ (hasSurface /\ surface >= minSurfaceFallback)
    ELSE IF ~meetsRooms THEN FALSE
    ELSE IF minSurface <= 0 THEN TRUE
    ELSE IF ~hasSurface THEN config.allowMissingSurface
    ELSE surface >= minSurface

\* Mutant: the pearl cap itself is already too expensive
isPearlBelowCap(item, config) ==
    IF ~config.pearl.enabled THEN FALSE
    ELSE LET hardBudget == config.maxTotalHardChf
             cap == config.maxPearlTotalChf
             total == item.totalChf IN
         IF IsNullish(total) \/ total <= hardBudget \/ total >= cap THEN FALSE
         ELSE IF Coalesce(item.rooms, 0) < config.pearl.minRooms
                 \/ Coalesce(item.surfaceM2, 0) < config.pearl.minSurfaceM2 THEN FALSE
         ELSE item.pearlHits >= config.pearl.minHits

isPearl(item, config) ==
    IF ~config.pearl.enabled THEN FALSE
    ELSE LET hardBudget == config.maxTotalHardChf
             cap == config.maxPearlTotalChf
             total == item.totalChf IN
         IF IsNullish(total) \/ total <= hardBudget \/ total > cap THEN FALSE
         ELSE IF Coalesce(item.rooms, 0) < config.pearl.minRooms
                 \/ Coalesce(item.surfaceM2, 0) < config.pearl.minSurfaceM2 THEN FALSE
         ELSE item.pearlHits >= config.pearl.minHits

\* publishedAgeDays(value) at time today
publishedAgeDays(value, today) ==
    IF IsNullish(value) THEN Null ELSE Max(0, today - value)

resolveMaxPublishedAgeDays(config) ==
    IF IsNullish(config.maxPublishedAgeDays) \/ config.maxPublishedAgeDays <= 0
    THEN DefaultMaxPublishedAgeDays
    ELSE config.maxPublishedAgeDays

publicationEligibility(item, config, today) ==
    LET maxAgeDays == resolveMaxPublishedAgeDays(config)
        ageDays == publishedAgeDays(item.publishedAt, today) IN
    IF ageDays = Null THEN [eligible |-> TRUE, ageDays |-> Null, maxAgeDays |-> maxAgeDays]
    ELSE [eligible |-> ageDays <= maxAgeDays, ageDays |-> ageDays, maxAgeDays |-> maxAgeDays]

locationEligibility == [eligible |-> TRUE, reason |-> ""]

\* item.landlordListed: the landlord text contains one of the configured groups
nonSpeculativeEligibility(item, config) ==
    IF ~config.nonSpeculativeOnly THEN [eligible |-> TRUE, reason |-> ""]
    ELSE IF config.nonSpeculativeGroups = {} THEN [eligible |-> TRUE, reason |-> ""]
    ELSE [eligible |-> item.landlordListed,
          reason |-> IF item.landlordListed THEN "" ELSE "landlord"]

derivePriority(item, config) ==
    IF item.listingStage = "off_market" THEN "A"
    ELSE IF item.listingStage = "early_market" THEN "A-"
    ELSE LET budget == config.maxTotalChf
             hardBudget == config.maxTotalHardChf
             minRooms == config.minRoomsPreferred
             rooms == Coalesce(item.rooms, 0)
             total == Coalesce(item.totalChf, 999999) IN
         IF total <= budget /\ rooms >= minRooms THEN "A"
         ELSE IF total <= budget + 80 /\ rooms >= minRooms THEN "A-"
         ELSE IF total <= hardBudget /\ rooms >= minRooms THEN "A-"
         ELSE "B"

\* The gates of the eligibility block of main, computed alike for a present
\* listing (item.excludedType = ..., and so on) and a stale one (refreshed)
Gates(item, config, today) ==
    LET minBudget == config.minTotalChf
        hardBudget == config.maxTotalHardChf IN
    [excludedType |-> isExcludedType(item, config),
     sizeEligible |-> isSizeEligible(item, config),
     isPearl |-> isPearl(item, config),
     withinHardBudget |-> IF ~IsNullish(item.totalChf) THEN item.totalChf <= hardBudget ELSE FALSE,
     aboveMinBudget |-> minBudget <= 0 \/ (~IsNullish(item.totalChf) /\ item.totalChf >= minBudget),
     publicationEligible |-> publicationEligibility(item, config, today).eligible,
     locationEligible |-> locationEligibility.eligible,
     nonSpeculativeEligible |-> nonSpeculativeEligibility(item, config).eligible]

\* Mutant: a pearl above the hard budget is not let through
DisplayOfWithoutPearl(g, isOffMarketListing) ==
    IF isOffMarketListing
    THEN ~g.excludedType /\ g.locationEligible /\ g.nonSpeculativeEligible
    ELSE /\ ~g.excludedType
         /\ g.sizeEligible
         /\ g.aboveMinBudget
         /\ g.withinHardBudget
         /\ g.publicationEligible
         /\ g.locationEligible
         /\ g.nonSpeculativeEligible

\* item.display = isOffMarketListing ? (...) : (...)
DisplayOf(g, isOffMarketListing) ==
    IF isOffMarketListing
    THEN ~g.excludedType /\ g.locationEligible /\ g.nonSpeculativeEligible
    ELSE /\ ~g.excludedType
         /\ g.sizeEligible
         /\ g.aboveMinBudget
         /\ (g.withinHardBudget \/ g.isPearl)
         /\ g.publicationEligible
         /\ g.locationEligible
         /\ g.nonSpeculativeEligible

\* Mutant: the size is looked at before the minimum budget
FilterReasonOfSizeFirst(g, display, isOffMarketListing) ==
    IF display THEN ""
    ELSE IF g.excludedType THEN "Type exclu (chambre/colocation)"
    ELSE IF ~g.locationEligible THEN "Hors zones ciblees"
    ELSE IF ~g.nonSpeculativeEligible THEN "Bailleur hors liste non speculative"
    ELSE IF isOffMarketListing THEN "Signal off-market non prioritaire"
    ELSE IF ~g.sizeEligible THEN "Taille non prioritaire"
    ELSE IF ~g.aboveMinBudget THEN "En dessous de CHF min"
    ELSE IF ~g.publicationEligible THEN "Annonce trop ancienne"
    ELSE "Au-dessus de CHF max"

\* if (!item.display) { if (item.excludedType) ... } else item.filterReason = ''
FilterReasonOf(g, display, isOffMarketListing) ==
    IF display THEN ""
    ELSE IF g.excludedType THEN "Type exclu (chambre/colocation)"
    ELSE IF ~g.locationEligible THEN "Hors zones ciblees"
    ELSE IF ~g.nonSpeculativeEligible THEN "Bailleur hors liste non speculative"
    ELSE IF isOffMarketListing THEN "Signal off-market non prioritaire"
    ELSE IF ~g.aboveMinBudget THEN "En dessous de CHF min"
    ELSE IF ~g.sizeEligible THEN "Taille non prioritaire"
    ELSE IF ~g.publicationEligible THEN "Annonce trop ancienne"
    ELSE "Au-dessus de CHF max"

\* The eligibility block of main, identical for present and stale listings:
\* the gates, display, filterReason and priority.
Refresh(item, config, today) ==
    LET g == Gates(item, config, today)
        isOffMarketListing == item.listingStage = "off_market"
        display == DisplayOf(g, isOffMarketListing) IN
    [gates |-> g,
     display |-> display,
     filterReason |-> FilterReasonOf(g, display, isOffMarketListing),
     priority |-> IF g.isPearl /\ ~g.withinHardBudget THEN "A*" ELSE derivePriority(item, config)]

\* ------------------------------------------------------------ computeScore
\* Least amounts over budget (CHF) at which floor((over/50)^1.12) reaches
\* 1, 2, 3, ...; beyond the last one the budget term is already floored at -20.
PenaltySteps ==
    <<50, 93, 134, 173, 211, 248, 285, 321, 356, 391, 426, 460, 494, 528, 562,
      595, 628, 661, 693, 726, 758, 790, 822, 854, 886, 917, 949, 980, 1011,
      1042, 1073, 1104, 1135, 1166, 1196, 1227, 1257, 1287, 1317, 1348, 1378,
      1408, 1437, 1467, 1497, 1527, 1556, 1586, 1615, 1645, 1674, 1703, 1732,
      1761, 1791, 1820, 1849, 1877, 1906, 1935, 1964, 1993, 2021, 2050, 2078>>

\* Math.floor(Math.pow(over / 50, 1.12)), capped at Len(PenaltySteps)
FloorPow(over) == Cardinality({n \in 1..Len(PenaltySteps) : PenaltySteps[n] <= over})

BudgetTerm(item, config) ==
    IF IsNullish(item.totalChf) THEN 0
    ELSE IF item.totalChf <= config.maxTotalChf THEN 45
    ELSE LET over == item.totalChf - config.maxTotalChf
             penalty == Max(1, FloorPow(over)) IN
         Max(0 - 20, 45 - penalty)

RoomTerm(item, config) ==
    LET rooms == Coalesce(item.rooms, 0) IN
    IF rooms >= config.minRoomsPreferred THEN 30
    ELSE IF rooms >= 15 THEN 15
    ELSE 5

StageTerm(item) ==
    IF item.listingStage = "off_market" THEN 20
    ELSE IF item.listingStage = "early_market" THEN 8
    ELSE 0

AreaTerm(item) ==
    LET areaKey == normalizeAreaToken(item.area) IN
    IF areaKey = "vevey" THEN 5 ELSE 0

\* Mutant: the travel penalty counts from 0 minutes, not from 30
TravelTermFromZero(item) ==
    LET transit == toPositiveNumber(item.transitMinutes)
        drive == toPositiveNumber(item.driveMinutes)
        referenceTravel == Coalesce(transit, drive) IN
    IF referenceTravel = Null THEN 0
    ELSE 0 - (referenceTravel \div 5)

TravelTerm(item) ==
    LET transit == toPositiveNumber(item.transitMinutes)
        drive == toPositiveNumber(item.driveMinutes)
        referenceTravel == Coalesce(transit, drive) IN
    IF referenceTravel = Null THEN 0
    ELSE 0 - (Max(0, referenceTravel - 30) \div 5)

computeScore(item, config) ==
    StageTerm(item) + BudgetTerm(item, config) + RoomTerm(item, config)
    + (IF item.kind = "studio" THEN 0 - 4 ELSE 0)
    + AreaTerm(item) + TravelTerm(item)

\* reasons of computeScore: one entry per reasons.push, as the term it names
\* and the points it reports
scoreReasons(item, config) ==
    (IF StageTerm(item) # 0 THEN <<[term |-> "Stage", points |-> StageTerm(item)]>> ELSE <<>>)
    \o <<[term |-> "Budget", points |-> BudgetTerm(item, config)]>>
    \o <<[term |-> "Pieces", points |-> RoomTerm(item, config)]>>
    \o (IF item.kind = "studio" THEN <<[term |-> "Type", points |-> 0 - 4]>> ELSE <<>>)
    \o (IF AreaTerm(item) # 0 THEN <<[term |-> "Zone", points |-> AreaTerm(item)]>> ELSE <<>>)
    \o <<[term |-> "Trajet Liip", points |-> TravelTerm(item)]>>

\* ------------------------------------------------------------------ inputs
\* A canonical raw listing as a scraping adapter returns it.
RawListing(id, source, area, address, rooms, surfaceM2, totalChf, kind, publishedAt, moveIn) ==
    [id |-> id, source |-> source, area |-> area, address |-> address,
     rooms |-> rooms, surfaceM2 |-> surfaceM2, totalChf |-> totalChf,
     kind |-> kind, listingStage |-> "", publishedAt |-> publishedAt,
     moveIn |-> moveIn, imageCount |-> 3, priceRawParses |-> ~IsNullish(totalChf),
     pearlHits |-> 0, landlordListed |-> FALSE, saleText |-> FALSE,
     duplicateSources |-> <<>>]

\* One listing is re-reported at a higher price (R1, R3); two sources report
\* the same flat in another area under their own ids (R2, R4).
R1 == RawListing("im:1", "immobilier.ch", "Montreux", <<"Av. Gare 2", "1820 Montreux">>,
                 25, 70, 1300, "appartement", 0, "D1")
R3 == RawListing("im:1", "immobilier.ch", "Montreux", <<"Av. Gare 2", "1820 Montreux">>,
                 25, 70, 1600, "appartement", 0, "D2")
R2 == RawListing("ff:2", "flatfox.ch", "Vevey VD", <<"rue du lac 1">>,
                 26, 62, 1410, "appartement", Null, NullStr)
R4 == RawListing("an:3", "anibis.ch", "Vevey", <<"Rue du Lac 1", "1800 Vevey">>,
                 24, 61, 1400, "studio", Null, NullStr)

Catalog == {R1, R2, R3, R4}
Ids == {r.id : r \in Catalog}

\* Result of the geocoder and the route planners for a listing when the
\* network answers: [distanceKm (tenths), driveMinutes, transitMinutes]
TravelOf(item) ==
    IF normalizeAreaToken(item.area) = "vevey"
    THEN [distanceKm |-> 12, driveMinutes |-> 10, transitMinutes |-> 45]
    ELSE [distanceKm |-> 80, driveMinutes |-> 25, transitMinutes |-> 30]

NetOutcomes == {"ok", "fail"}

\* watch-config.json
MaxThreshold == 3
CfgMaxPublishedAgeDays == 2

BaseConfig ==
    [areas |-> {"Vevey", "Montreux"},
     sources |-> [flatfox |-> TRUE, anibis |-> TRUE],
     recheckKnownIdsLimit |-> 20,
     missingScansBeforeRemoved |-> DefaultMissingScans,
     maxPublishedAgeDays |-> CfgMaxPublishedAgeDays,
     minTotalChf |-> 0,
     maxTotalChf |-> DefaultMaxTotalChf,
     maxTotalHardChf |-> DefaultHardBudget,
     maxPearlTotalChf |-> DefaultPearlCap,
     minRoomsPreferred |-> DefaultMinRooms10,
     minSurfaceM2Preferred |-> 0,
     minSurfaceM2Fallback |-> 0,
     allowStudioTransition |-> TRUE,
     allowMissingSurface |-> TRUE,
     excludedObjectTypeKeywords |-> {"chambre"},
     nonSpeculativeOnly |-> FALSE,
     nonSpeculativeGroups |-> {},
     pearl |-> [enabled |-> TRUE, minRooms |-> 20, minSurfaceM2 |-> 50, minHits |-> 1]]

Configs ==
    {[BaseConfig EXCEPT !.missingScansBeforeRemoved = t] : t \in 1..MaxThreshold}
    \cup {[BaseConfig EXCEPT !.areas = {"Vevey"}],
          [BaseConfig EXCEPT !.sources.anibis = FALSE],
          [BaseConfig EXCEPT !.sources.flatfox = FALSE],
          [BaseConfig EXCEPT !.maxTotalHardChf = DefaultMaxTotalChf]}

\* const missingScansBeforeRemoved = Math.max(1, Number(... ?? 2))
missingScansBeforeRemoved(config) == Max(1, config.missingScansBeforeRemoved)

\* What the API may be asked to store
NoNotes == <<"undefined">>
StatusRequests ==
    {[status |-> "Visite planifiee", notes |-> <<"x", "s", "E", ":", "x">>],
     [status |-> "Refuse", notes |-> NoNotes]}

\* --------------------------------------------------------------- the state
VARIABLES
    tracker,      \* tracker.json: the sequence tracker.listings
    latest,       \* latest-listings.json
    config,       \* watch-config.json
    now,          \* the clock: the day of the next scan
    nscans,       \* scans run so far
    napi,         \* API requests that wrote a document so far
    nfail,        \* scans run while the network was down
    dedupIds,     \* ids of the deduplicated batch of the last scan
    reportedIds,  \* ids some source returned during the last scan
    disk,         \* for each document a scan writes, the number of the scan that last wrote it
    pc,           \* where the scan process stands in its final writes
    scanRun,      \* what the running scan read when it started and what it computed
    deletedIds,   \* ids the user deleted through the API
    fnArgs,       \* arguments of the function called on its own
    fnResult,     \* what that call returned
    geo,          \* the geocoder of the scan process: clock, lastGeocodeRequestAt, cache, requests
    server        \* the dashboard server: profile directories, scan children, jobs, last answer

vars == <<tracker, latest, config, now, nscans, napi, nfail, dedupIds, reportedIds,
          disk, pc, scanRun, deletedIds, fnArgs, fnResult, geo, server>>

\* The documents main() rewrites at its end, in the order of the writes
Docs == {"tracker", "latest", "geocodeCache", "routeCache"}

TrackerIds(trk) == {trk[i].id : i \in 1..Len(trk)}

\* toMap(tracker.listings).get(id): the last entry with that id
EntryOf(trk, id) ==
    trk[CHOOSE i \in 1..Len(trk) : trk[i].id = id /\ \A k \in (i + 1)..Len(trk) : trk[k].id # id]

\* ---------------------------------------------------------------- the scan
\* First loop of main over dedup.values(): derived fields, move-in date and
\* travel enrichment of one item of the batch.
\* Mutant: the geocoder and the route planners are asked for every listing
EnrichmentWantedAlways(display) == TRUE

\* if (item.display) { ... computeDistanceFromWork, fetchDrivingMinutes,
\* fetchTransitMinutes ... }; refreshed.display !== false in the second loop
EnrichmentWanted(display) == display

EnrichItem(item, cfg, today, net) ==
    LET r == Refresh(item, cfg, today)
        travel == TravelOf(item)
        computed == EnrichmentWanted(r.display) /\ net = "ok"
        moveInDate == IF isStrictEntryDate(item.moveIn) THEN item.moveIn ELSE NullStr IN
    [item |-> item,
     gates |-> r.gates,
     display |-> r.display,
     filterReason |-> r.filterReason,
     priority |-> r.priority,
     entryDateText |-> IF ~r.display THEN NullStr
                       ELSE IF item.source = "immobilier.ch"
                            THEN (IF net = "ok" THEN item.moveIn ELSE NullStr)
                            ELSE moveInDate,
     entryDateFetched |-> IF ~r.display THEN FALSE
                          ELSE IF item.source = "immobilier.ch" THEN net = "ok"
                          ELSE moveInDate # NullStr,
     distanceComputed |-> computed,
     distanceKm |-> IF computed THEN travel.distanceKm ELSE Null,
     driveMinutes |-> IF computed THEN toDurationMinutesOrNull(travel.driveMinutes) ELSE Null,
     transitMinutes |-> IF computed THEN toDurationMinutesOrNull(travel.transitMinutes) ELSE Null]

\* The fields of a tracker entry that come from the scraped item ({...item})
ItemFields(item) ==
    [id |-> item.id, source |-> item.source, area |-> item.area,
     address |-> item.address, rooms |-> item.rooms, surfaceM2 |-> item.surfaceM2,
     totalChf |-> item.totalChf, kind |-> item.kind, listingStage |-> item.listingStage,
     moveIn |-> item.moveIn, imageCount |-> item.imageCount,
     priceRawParses |-> item.priceRawParses, pearlHits |-> item.pearlHits,
     landlordListed |-> item.landlordListed, saleText |-> item.saleText,
     duplicateSources |-> item.duplicateSources]

\* Mutant: a re-confirmed listing goes back to the initial status
MergedStatusReset(existing) == "A contacter"

\* status: normalizeStatus(existing.status || 'A contacter')
MergedStatus(existing) ==
    normalizeStatus(IF existing.status = "" THEN "A contacter" ELSE existing.status)

\* Mutant: a re-confirmed listing is stamped as first seen now
MergedFirstSeenAtNow(existing, today) == today

\* firstSeenAt: existing.firstSeenAt || now
MergedFirstSeenAt(existing, today) ==
    IF existing.firstSeenAt # Null THEN existing.firstSeenAt ELSE today

\* pinned: !!existing.pinned
\* Mutant: a listing that is already tracked is never new
MergedIsNewNever(id, prevIds) == FALSE

\* isNew: !prevIds.has(String(item.id))
MergedIsNew(id, prevIds) == id \notin prevIds

MergedPinned(existing) == IF existing.pinned = "true" THEN "true" ELSE "false"

\* merged.push({...existing, ...item, ...}) for an id already in the tracker
MergeExisting(e, existing, prevIds, today) ==
    LET item == e.item
        previousValidDate == IF isStrictEntryDate(existing.entryDateText)
                             THEN existing.entryDateText ELSE NullStr
        apiProvidedDate == IF isStrictEntryDate(e.entryDateText)
                           THEN e.entryDateText ELSE NullStr
        entryDateText == IF e.entryDateFetched THEN apiProvidedDate ELSE previousValidDate IN
    ItemFields(item) @@ e.gates @@
    [publishedAt |-> IF ~IsNullish(item.publishedAt) THEN item.publishedAt
                     ELSE existing.publishedAt,
     display |-> e.display,
     filterReason |-> e.filterReason,
     priority |-> e.priority,
     lastSeenAt |-> today,
     pinned |-> MergedPinned(existing),
     entryDateText |-> entryDateText,
     distanceKm |-> IF e.distanceComputed THEN e.distanceKm ELSE existing.distanceKm,
     driveMinutes |-> Coalesce(toDurationMinutesOrNull(e.driveMinutes),
                               toDurationMinutesOrNull(existing.driveMinutes)),
     transitMinutes |-> Coalesce(toDurationMinutesOrNull(e.transitMinutes),
                                 toDurationMinutesOrNull(existing.transitMinutes)),
     status |-> MergedStatus(existing),
     notes |-> mergeNotesWithEntryDate(existing.notes, entryDateText),
     firstSeenAt |-> MergedFirstSeenAt(existing, today),
     active |-> TRUE,
     isRemoved |-> FALSE,
     removedAt |-> Null,
     missingCount |-> 0,
     isNew |-> MergedIsNew(item.id, prevIds),
     score |-> 0]

\* Mutant: a new entry is dated one day before the scan
NewFirstSeenAtEarlier(today) == today - 1

\* firstSeenAt: now
NewFirstSeenAt(today) == today

\* merged.push({...item, ...}) for a new id
MergeNew(e, today) ==
    LET item == e.item
        entryDateText == IF isStrictEntryDate(e.entryDateText) THEN e.entryDateText ELSE NullStr IN
    ItemFields(item) @@ e.gates @@
    [publishedAt |-> item.publishedAt,
     display |-> e.display,
     filterReason |-> e.filterReason,
     priority |-> e.priority,
     lastSeenAt |-> today,
     pinned |-> "undefined",
     entryDateText |-> entryDateText,
     distanceKm |-> IF e.distanceComputed THEN e.distanceKm ELSE Null,
     driveMinutes |-> toDurationMinutesOrNull(e.driveMinutes),
     transitMinutes |-> toDurationMinutesOrNull(e.transitMinutes),
     status |-> "A contacter",
     notes |-> mergeNotesWithEntryDate(<<>>, entryDateText),
     firstSeenAt |-> NewFirstSeenAt(today),
     active |-> TRUE,
     isRemoved |-> FALSE,
     removedAt |-> Null,
     missingCount |-> 0,
     isNew |-> TRUE,
     score |-> 0]

MergePresent(item, trk, prevIds, cfg, today, net) ==
    LET e == EnrichItem(item, cfg, today, net) IN
    IF item.id \in TrackerIds(trk)
    THEN MergeExisting(e, EntryOf(trk, item.id), prevIds, today)
    ELSE MergeNew(e, today)

\* isStoredAnibisSaleListing: a sale keyword in title/url/priceRaw or notes
isStoredAnibisSaleListing(old) ==
    /\ old.source = "anibis.ch"
    /\ (old.saleText \/ "V" \in SeqToSet(old.notes))

\* Mutant: the counter restarts at every absence
nextMissingRestarts(old) == 1

\* const nextMissing = Number(old.missingCount || 0) + 1
nextMissing(old) == old.missingCount + 1

\* Mutant: the threshold is compared one scan too early
shouldRemoveEarly(fastExit, display, missing, cfg) ==
    IF fastExit THEN TRUE
    ELSE IF ~display THEN FALSE
    ELSE missing + 1 >= missingScansBeforeRemoved(cfg)

\* const shouldRemove = duplicateOfActive || excludedAnibisSale || anibisSourceDisabled
\*   ? true : (refreshed.display === false ? false : nextMissing >= missingScansBeforeRemoved)
shouldRemove(fastExit, display, missing, cfg) ==
    IF fastExit THEN TRUE
    ELSE IF ~display THEN FALSE
    ELSE missing >= missingScansBeforeRemoved(cfg)

\* Mutant: the out-of-scope branch forgets display: false
OutOfScopeEntryStillDisplayed(old) ==
    [old EXCEPT !.status = normalizeStatus(old.status),
                !.active = FALSE,
                !.isRemoved = FALSE,
                !.missingCount = old.missingCount + 1,
                !.isNew = FALSE,
                !.filterReason = "Hors zone suivie"]

\* if (outOfScopeListing) merged.push({...old, ...})
OutOfScopeEntry(old) ==
    [old EXCEPT !.status = normalizeStatus(old.status),
                !.active = FALSE,
                !.isRemoved = FALSE,
                !.missingCount = nextMissing(old),
                !.isNew = FALSE,
                !.display = FALSE,
                !.filterReason = "Hors zone suivie"]

\* Whether the second loop reaches computeDistanceFromWork for the old entry:
\* none of the branches that continue is taken, and
\* refreshed.display !== false && (!shouldRemove || a travel value is null)
AbsentEnrichmentRequested(old, activeDedupKeys, cfg, today) ==
    LET refreshed == Refresh(old, cfg, today)
        oldDedupKey == buildCrossSourceDedupKey(old)
        fastExit ==
            \/ refreshed.display /\ oldDedupKey # NoKey /\ oldDedupKey \in activeDedupKeys
            \/ isStoredAnibisSaleListing(old)
            \/ old.source = "anibis.ch" /\ ~cfg.sources.anibis
        \* shouldRemove where none of the three conditions of fastExit holds
        removeNow == shouldRemove(FALSE, refreshed.display, nextMissing(old), cfg) IN
    /\ isTargetAreaCity(old.area, buildTargetAreaSet(cfg.areas))
    /\ ~(old.source \in {"naef.ch", "bernard-nicod.ch"} /\ ~isLikelyResidentialListing(old))
    /\ EnrichmentWanted(refreshed.display)
    /\ ~fastExit
    /\ \/ toDurationMinutesOrNull(old.driveMinutes) = Null
       \/ toDurationMinutesOrNull(old.transitMinutes) = Null
       \/ toNumberOrNull(old.distanceKm) = Null
       \/ ~removeNow

\* Second loop of main: one tracker entry whose id is not in the batch.
MergeAbsent(old, activeDedupKeys, cfg, today, net) ==
    LET targetAreaSet == buildTargetAreaSet(cfg.areas)
        outOfScopeListing == ~isTargetAreaCity(old.area, targetAreaSet)
        nonResidentialDirectSource ==
            old.source \in {"naef.ch", "bernard-nicod.ch"} /\ ~isLikelyResidentialListing(old)
        refreshed == Refresh(old, cfg, today)
        oldDedupKey == buildCrossSourceDedupKey(old)
        duplicateOfActive ==
            refreshed.display /\ oldDedupKey # NoKey /\ oldDedupKey \in activeDedupKeys
        excludedAnibisSale == isStoredAnibisSaleListing(old)
        anibisSourceDisabled == old.source = "anibis.ch" /\ ~cfg.sources.anibis
        fastExit == duplicateOfActive \/ excludedAnibisSale \/ anibisSourceDisabled
        removeNow == shouldRemove(fastExit, refreshed.display, nextMissing(old), cfg)
        distanceKm0 == toNumberOrNull(old.distanceKm)
        driveMinutes0 == toDurationMinutesOrNull(old.driveMinutes)
        transitMinutes0 == toDurationMinutesOrNull(old.transitMinutes)
        computed == net = "ok" /\ AbsentEnrichmentRequested(old, activeDedupKeys, cfg, today)
        travel == TravelOf(old) IN
    IF outOfScopeListing
    THEN OutOfScopeEntry(old)
    ELSE IF nonResidentialDirectSource
    THEN [old EXCEPT !.status = normalizeStatus(old.status),
                     !.active = FALSE,
                     !.isRemoved = TRUE,
                     !.removedAt = IF old.removedAt # Null THEN old.removedAt ELSE today,
                     !.missingCount = nextMissing(old),
                     !.isNew = FALSE,
                     !.display = FALSE,
                     !.filterReason = "Objet non residentiel (filtre)"]
    ELSE IF fastExit
    THEN [old EXCEPT !.status = normalizeStatus(old.status),
                     !.active = FALSE,
                     !.isRemoved = TRUE,
                     !.removedAt = IF old.removedAt # Null THEN old.removedAt ELSE today,
                     !.missingCount = nextMissing(old),
                     !.isNew = FALSE,
                     !.display = FALSE,
                     !.filterReason = IF duplicateOfActive THEN "Doublon inter-source"
                                      ELSE IF excludedAnibisSale THEN "Annonce vente exclue (Anibis)"
                                      ELSE "Source Anibis desactivee"]
    ELSE refreshed.gates @@
         [old EXCEPT !.display = refreshed.display,
                     !.filterReason = refreshed.filterReason,
                     !.priority = refreshed.priority,
                     !.distanceKm = IF computed THEN travel.distanceKm ELSE distanceKm0,
                     !.driveMinutes = IF computed /\ driveMinutes0 = Null
                                      THEN toDurationMinutesOrNull(travel.driveMinutes)
                                      ELSE driveMinutes0,
                     !.transitMinutes = IF computed /\ transitMinutes0 = Null
                                        THEN toDurationMinutesOrNull(travel.transitMinutes)
                                        ELSE transitMinutes0,
                     !.status = normalizeStatus(old.status),
                     !.active = ~removeNow,
                     !.isRemoved = removeNow,
                     !.removedAt = IF removeNow
                                   THEN (IF old.removedAt # Null THEN old.removedAt ELSE today)
                                   ELSE Null,
                     !.missingCount = nextMissing(old),
                     !.isNew = FALSE]

\* Mutant: the second loop forgets the dedup.has guard
IsAbsentAlways(old, presentIds) == TRUE

\* if (!dedup.has(String(old.id)))
IsAbsent(old, presentIds) == old.id \notin presentIds

\* Mutant: an entry that becomes removed is dropped from the tracker
RECURSIVE AbsentLoopDropsRemoved(_, _, _, _, _, _)
AbsentLoopDropsRemoved(trk, presentIds, activeDedupKeys, cfg, today, net) ==
    IF trk = <<>> THEN <<>>
    ELSE LET e == MergeAbsent(Head(trk), activeDedupKeys, cfg, today, net)
             rest == AbsentLoopDropsRemoved(Tail(trk), presentIds, activeDedupKeys, cfg, today, net) IN
         IF IsAbsent(Head(trk), presentIds) /\ ~e.isRemoved THEN <<e>> \o rest ELSE rest

\* for (const old of tracker.listings || []) ...
RECURSIVE AbsentLoop(_, _, _, _, _, _)
AbsentLoop(trk, presentIds, activeDedupKeys, cfg, today, net) ==
    IF trk = <<>> THEN <<>>
    ELSE IF IsAbsent(Head(trk), presentIds)
         THEN <<MergeAbsent(Head(trk), activeDedupKeys, cfg, today, net)>>
              \o AbsentLoop(Tail(trk), presentIds, activeDedupKeys, cfg, today, net)
         ELSE AbsentLoop(Tail(trk), presentIds, activeDedupKeys, cfg, today, net)

\* merged.sort(...): active first, then score descending, then totalChf ascending
SortsBefore(a, b) ==
    LET av == IF a.active THEN 1 ELSE 0
        bv == IF b.active THEN 1 ELSE 0
        at == IF IsNullish(a.totalChf) \/ a.totalChf = 0 THEN 999999 ELSE a.totalChf
        bt == IF IsNullish(b.totalChf) \/ b.totalChf = 0 THEN 999999 ELSE b.totalChf IN
    IF av # bv THEN bv < av
    ELSE IF a.score # b.score THEN b.score < a.score
    ELSE at < bt

\* stable insertion of x into the sorted sequence q
RECURSIVE InsertSorted(_, _)
InsertSorted(q, x) ==
    IF q = <<>> THEN <<x>>
    ELSE IF SortsBefore(x, Head(q)) THEN <<x>> \o q
    ELSE <<Head(q)>> \o InsertSorted(Tail(q), x)

RECURSIVE SortMerged(_)
SortMerged(q) ==
    IF q = <<>> THEN <<>>
    ELSE InsertSorted(SortMerged(SubSeq(q, 1, Len(q) - 1)), q[Len(q)])

\* Re-fetch by id of tracked flatfox listings that the search did not return.
NoItem == [id |-> "none"]

RECURSIVE RecheckLoop(_, _, _, _, _)
RecheckLoop(missingKnown, dedupById, recov, targetAreaSet, trackedIds) ==
    IF missingKnown = <<>> THEN dedupById
    ELSE
      LET old == Head(missingKnown)
          recovered == recov[old.id] IN
      IF recovered.id = "none" \/ ~isTargetAreaCity(recovered.area, targetAreaSet)
      THEN RecheckLoop(Tail(missingKnown), dedupById, recov, targetAreaSet, trackedIds)
      ELSE
        LET i == IdIndex(dedupById, recovered.id) IN
        RecheckLoop(Tail(missingKnown),
                    IF i = 0 THEN Append(dedupById, recovered)
                    ELSE IF listingQualityRank(recovered, trackedIds)
                              > listingQualityRank(dedupById[i], trackedIds)
                         THEN [dedupById EXCEPT ![i] = recovered]
                         ELSE dedupById,
                    recov, targetAreaSet, trackedIds)

RECURSIVE MissingKnownFlatfox(_, _)
MissingKnownFlatfox(trk, batchIds) ==
    IF trk = <<>> THEN <<>>
    ELSE IF Head(trk).source = "flatfox.ch" /\ Head(trk).id \notin batchIds
         THEN <<Head(trk)>> \o MissingKnownFlatfox(Tail(trk), batchIds)
         ELSE MissingKnownFlatfox(Tail(trk), batchIds)

\* The batch after both dedup stages (crossSourceDeduped)
DedupedBatch(trk, cfg, scraped, recov) ==
    LET trackedIds == TrackerIds(trk)
        targetAreaSet == buildTargetAreaSet(cfg.areas)
        dedupById == DedupByIdLoop(scraped, trackedIds, <<>>)
        missingKnown == MissingKnownFlatfox(trk, TrackerIds(dedupById))
        rechecked ==
            IF cfg.sources.flatfox
            THEN RecheckLoop(SubSeq(missingKnown, 1, Min(Len(missingKnown), cfg.recheckKnownIdsLimit)),
                             dedupById, recov, targetAreaSet, trackedIds)
            ELSE dedupById IN
    dedupeCrossSourceListings(rechecked, trackedIds)

RECURSIVE PresentLoop(_, _, _, _, _, _)
PresentLoop(items, trk, prevIds, cfg, today, net) ==
    IF items = <<>> THEN <<>>
    ELSE <<MergePresent(Head(items), trk, prevIds, cfg, today, net)>>
         \o PresentLoop(Tail(items), trk, prevIds, cfg, today, net)

RECURSIVE ScoreAll(_, _)
ScoreAll(merged, cfg) ==
    IF merged = <<>> THEN <<>>
    ELSE <<[Head(merged) EXCEPT !.score = computeScore(Head(merged), cfg)]>>
         \o ScoreAll(Tail(merged), cfg)

\* tracker.listings written by main
Merged(trk, prevIds, cfg, today, batch, net) ==
    LET presentIds == TrackerIds(batch)
        activeDedupKeys == {buildCrossSourceDedupKey(batch[i]) : i \in 1..Len(batch)} \ {NoKey} IN
    SortMerged(ScoreAll(PresentLoop(batch, trk, prevIds, cfg, today, net)
                        \o AbsentLoop(trk, presentIds, activeDedupKeys, cfg, today, net),
                        cfg))

\* latest-listings.json keeps a copy of each visible entry; the model keeps
\* the fields the server reads back.
Snapshot(x) == [id |-> x.id, active |-> x.active, isRemoved |-> x.isRemoved, pinned |-> x.pinned]

SnapshotsOf(kept) == [i \in 1..Len(kept) |-> Snapshot(kept[i])]

LatestOf(merged, prevIds, today) ==
    LET IsVisibleActive(x) == x.active /\ x.display
        IsVisibleRemoved(x) == ~x.active /\ x.display /\ x.isRemoved
        IsVisible(x) == x.display
        IsNewListing(x) == x.active /\ x.display /\ (x.isNew \/ x.id \notin prevIds)
        visibleActive == SnapshotsOf(SelectSeq(merged, IsVisibleActive))
        newListings == SnapshotsOf(SelectSeq(merged, IsNewListing)) IN
    [generatedAt |-> today,
     totalCount |-> Len(visibleActive),
     removedCount |-> Len(SnapshotsOf(SelectSeq(merged, IsVisibleRemoved))),
     matchingCount |-> Len(visibleActive),
     newCount |-> Len(newListings),
     newListings |-> newListings,
     matching |-> visibleActive,
     all |-> SnapshotsOf(SelectSeq(merged, IsVisible))]

EmptyLatest ==
    [generatedAt |-> Null, totalCount |-> 0, removedCount |-> 0, matchingCount |-> 0,
     newCount |-> 0, newListings |-> <<>>, matching |-> <<>>, all |-> <<>>]

\* ----------------------------------------------------------------- actions
Allowed(item, cfg) ==
    /\ isTargetAreaCity(item.area, buildTargetAreaSet(cfg.areas))
    /\ (item.source = "flatfox.ch" => cfg.sources.flatfox)
    /\ (item.source = "anibis.ch" => cfg.sources.anibis)

\* main calls the adapters in a fixed order and appends what each returns
SourceOrder(source) ==
    CASE source = "immobilier.ch" -> 1
      [] source = "flatfox.ch" -> 2
      [] source = "anibis.ch" -> 7
      [] OTHER -> 8

\* What the adapters may return: up to MaxBatch different catalog listings of
\* enabled sources and target areas, source after source, the listings of one
\* source in any order.
Batches(cfg) ==
    LET ok == {r \in Catalog : Allowed(r, cfg)} IN
    UNION {{q \in [1..n -> ok] :
                \A i, j \in 1..n :
                    i < j => q[i] # q[j] /\ SourceOrder(q[i].source) <= SourceOrder(q[j].source)}
           : n \in 0..MaxBatch}

\* What fetchFlatfoxListingById may return for the tracked flatfox listings
\* that the search missed.
RecovChoices(trk, cfg, scraped) ==
    LET batchIds == TrackerIds(DedupByIdLoop(scraped, TrackerIds(trk), <<>>))
        asked == IF cfg.sources.flatfox
                 THEN TrackerIds(MissingKnownFlatfox(trk, batchIds)) ELSE {} IN
    {f \in [asked -> Catalog \cup {NoItem}] :
        \A id \in asked : f[id] # NoItem => f[id].id = id /\ f[id].source = "flatfox.ch"}

LatestIds(l) == {l.all[i].id : i \in 1..Len(l.all)}

\* main() of scrape-immobilier.mjs from the reconciliation on, on the
\* listings and the snapshot ids it loaded
ScanFrom(trk, prevIds, scraped, recov, net) ==
    /\ nscans < MaxScans
    /\ LET batch == DedupedBatch(trk, config, scraped, recov)
           merged == Merged(trk, prevIds, config, now, batch, net) IN
       /\ tracker' = merged
       /\ latest' = LatestOf(merged, prevIds, now)
       /\ dedupIds' = TrackerIds(batch)
    /\ reportedIds' = TrackerIds(scraped) \cup {id \in DOMAIN recov : recov[id] # NoItem}
    /\ net = "fail" => napi + nfail < MaxEnvEvents
    /\ nfail' = IF net = "fail" THEN nfail + 1 ELSE nfail
    /\ nscans' = nscans + 1
    /\ now' = now + 1
    /\ disk' = [d \in Docs |-> nscans + 1]
    /\ UNCHANGED <<config, napi, pc, scanRun, deletedIds, geo, server>>

\* main() of scrape-immobilier.mjs on well-formed documents
Scan(scraped, recov, net) ==
    ScanFrom(tracker, LatestIds(latest), scraped, recov, net)

ScanStep ==
    \E scraped \in Batches(config) :
      \E recov \in RecovChoices(tracker, config, scraped) :
        \E net \in NetOutcomes :
          Scan(scraped, recov, net) /\ UNCHANGED <<fnArgs, fnResult>>

\* A find that takes the first listing whatever its id
FindIndexFirst(q, id) == IF q = <<>> THEN 0 ELSE 1

\* tracker.listings.find((x) => String(x.id) === String(id))
FindIndex(q, id) == IdIndex(q, id)

\* updateStatus(profile, id, status, notes) of serve-dashboard.mjs
updateStatus(id, status, notes) ==
    /\ napi + nfail < MaxEnvEvents
    /\ LET i == FindIndex(tracker, id) IN
       IF i = 0 THEN UNCHANGED <<tracker, napi>>
       ELSE /\ tracker' = [tracker EXCEPT
                   ![i].status = IF status # "" THEN status ELSE @,
                   ![i].notes = IF notes # NoNotes THEN notes ELSE @]
            /\ napi' = napi + 1
    /\ UNCHANGED <<latest, config, now, nscans, nfail, dedupIds, reportedIds>>
    /\ UNCHANGED <<disk, pc, scanRun, deletedIds, fnArgs, geo, server>>

SetPinned(arr, id, pinned) ==
    LET i == FindIndex(arr, id) IN
    IF i = 0 THEN arr ELSE [arr EXCEPT ![i].pinned = pinned]

\* togglePin(profile, id)
togglePin(id) ==
    /\ napi + nfail < MaxEnvEvents
    /\ LET i == FindIndex(tracker, id) IN
       IF i = 0 THEN UNCHANGED <<tracker, latest, napi>>
       ELSE LET pinned == IF tracker[i].pinned = "true" THEN "false" ELSE "true" IN
            /\ napi' = napi + 1
            /\ tracker' = [tracker EXCEPT ![i].pinned = pinned]
            /\ latest' = [latest EXCEPT !.all = SetPinned(@, id, pinned),
                                        !.matching = SetPinned(@, id, pinned),
                                        !.newListings = SetPinned(@, id, pinned)]
    /\ UNCHANGED <<config, now, nscans, nfail, dedupIds, reportedIds>>
    /\ UNCHANGED <<disk, pc, scanRun, deletedIds, fnArgs, geo, server>>

RECURSIVE WithoutId(_, _)
WithoutId(q, id) ==
    IF q = <<>> THEN <<>>
    ELSE IF Head(q).id = id THEN WithoutId(Tail(q), id)
         ELSE <<Head(q)>> \o WithoutId(Tail(q), id)

\* A count that takes no entry for removed
CountRemovedNone(q) == 0

\* latest.all.filter((x) => x.isRemoved).length
CountRemoved(q) == Cardinality({i \in 1..Len(q) : q[i].isRemoved})

\* deleteListing(profile, id)
deleteListing(id) ==
    /\ napi + nfail < MaxEnvEvents
    /\ IF id \notin TrackerIds(tracker) THEN UNCHANGED <<tracker, latest, napi, deletedIds>>
       ELSE /\ napi' = napi + 1
            /\ deletedIds' = deletedIds \cup {id}
            /\ tracker' = WithoutId(tracker, id)
            /\ latest' =
                 LET all == WithoutId(latest.all, id)
                     matching == WithoutId(latest.matching, id)
                     newListings == WithoutId(latest.newListings, id) IN
                 [latest EXCEPT !.all = all,
                                !.matching = matching,
                                !.newListings = newListings,
                                !.totalCount = Len(all) - CountRemoved(all),
                                !.removedCount = CountRemoved(all),
                                !.matchingCount = Len(matching),
                                !.newCount = Len(newListings)]
    /\ UNCHANGED <<config, now, nscans, nfail, dedupIds, reportedIds>>
    /\ UNCHANGED <<disk, pc, scanRun, fnArgs, geo, server>>

\* POST /api/profile/update rewrites watch-config.json
updateProfile(cfg) ==
    /\ napi + nfail < MaxEnvEvents
    /\ cfg # config
    /\ napi' = napi + 1
    /\ config' = cfg
    /\ UNCHANGED <<tracker, latest, now, nscans, nfail, dedupIds, reportedIds>>
    /\ UNCHANGED <<disk, pc, scanRun, deletedIds, fnArgs, fnResult, geo, server>>

UpdateStatusStep ==
    \E id \in Ids : \E req \in StatusRequests :
        updateStatus(id, req.status, req.notes) /\ UNCHANGED fnResult
TogglePinStep == \E id \in Ids : togglePin(id) /\ UNCHANGED fnResult
DeleteListingStep == \E id \in Ids : deleteListing(id) /\ UNCHANGED fnResult
UpdateProfileStep == \E cfg \in Configs : updateProfile(cfg)

\* No function is called on its own
NoArgs == [items |-> <<>>, config |-> BaseConfig, trackedIds |-> {}]
NoResult == [fn |-> "none"]

\* The geocoder of a scan process that has sent no request yet: the clock is
\* Date.now() in tenths of a second, lastGeocodeRequestAt is 0
GeoStart == 100
NoGeo == [clock |-> GeoStart, lastGeocodeRequestAt |-> 0, geocodeCache |-> {}, sent |-> <<>>]

\* The profile directories under data/profiles, by slug, a slug being the
\* sequence of its characters
Fribourg == <<"f", "r", "i", "b", "o", "u", "r", "g">>
Vevey == <<"v", "e", "v", "e", "y">>
Nyon == <<"n", "y", "o", "n">>
Slugs == {Fribourg, Vevey, Nyon}

\* A directory that does not exist, and one with a watch-config.json and the
\* documents of earlier scans
NoProfile == [config |-> "none", data |-> "none"]
ScannedProfile == [config |-> "config 1", data |-> "listings"]
NoAnswer == [op |-> "none", slug |-> <<>>, status |-> 0]

\* The server after start: the profiles fribourg and vevey on disk, no scan
\* child, no job in scanAllJobs, no request answered yet
NoServer ==
    [profiles |-> [s \in Slugs |-> IF s = Nyon THEN NoProfile ELSE ScannedProfile],
     children |-> {},
     spawned |-> 0,
     scanAllJobs |-> {},
     requests |-> 0,
     http |-> NoAnswer]

\* No scan process is running and none has crashed
NoRun == [prevTracker |-> <<>>, prevLatest |-> EmptyLatest, prevDisk |-> [d \in Docs |-> 0],
          newTracker |-> <<>>, newLatest |-> EmptyLatest]

Init ==
    /\ tracker = <<>>
    /\ latest = EmptyLatest
    /\ config = BaseConfig
    /\ now = 1
    /\ nscans = 0
    /\ napi = 0
    /\ nfail = 0
    /\ dedupIds = {}
    /\ reportedIds = {}
    /\ disk = [d \in Docs |-> 0]
    /\ pc = "idle"
    /\ scanRun = NoRun
    /\ deletedIds = {}
    /\ fnArgs = NoArgs
    /\ fnResult = NoResult
    /\ geo = NoGeo
    /\ server = NoServer

Next ==
    \/ ScanStep
    \/ UpdateStatusStep
    \/ TogglePinStep
    \/ DeleteListingStep
    \/ UpdateProfileStep

Spec == Init /\ [][Next]_vars

\* ------------------------------------------ the scan process, write by write
\* Scans started in one run of the write-by-write specification
MaxWriteScans == 2

\* main() up to line 6007: everything is read and computed in memory
ScanBegin(scraped, recov, net) ==
    /\ pc \in {"idle", "crashed"}
    /\ nscans < MaxWriteScans
    /\ LET batch == DedupedBatch(tracker, config, scraped, recov)
           prevIds == LatestIds(latest)
           merged == Merged(tracker, prevIds, config, now, batch, net) IN
       /\ scanRun' = [prevTracker |-> tracker, prevLatest |-> latest, prevDisk |-> disk,
                      newTracker |-> merged,
                      newLatest |-> LatestOf(merged, prevIds, now)]
       /\ dedupIds' = TrackerIds(batch)
    /\ reportedIds' = TrackerIds(scraped) \cup {id \in DOMAIN recov : recov[id] # NoItem}
    /\ net = "fail" => napi + nfail < MaxEnvEvents
    /\ nfail' = IF net = "fail" THEN nfail + 1 ELSE nfail
    /\ nscans' = nscans + 1
    /\ now' = now + 1
    /\ pc' = "writeTracker"
    /\ UNCHANGED <<tracker, latest, config, napi, disk, deletedIds, fnArgs, fnResult, geo, server>>

ScanBeginStep ==
    \E scraped \in Batches(config) :
      \E recov \in RecovChoices(tracker, config, scraped) :
        \E net \in NetOutcomes : ScanBegin(scraped, recov, net)

\* await fs.writeFile(TRACKER_PATH, ...)
WriteTracker ==
    /\ pc = "writeTracker"
    /\ tracker' = scanRun.newTracker
    /\ disk' = [disk EXCEPT !["tracker"] = nscans]
    /\ pc' = "writeLatest"
    /\ UNCHANGED <<latest, config, now, nscans, napi, nfail, dedupIds, reportedIds,
                   scanRun, deletedIds, fnArgs, fnResult, geo, server>>

\* await fs.writeFile(LATEST_PATH, ...)
WriteLatest ==
    /\ pc = "writeLatest"
    /\ latest' = scanRun.newLatest
    /\ disk' = [disk EXCEPT !["latest"] = nscans]
    /\ pc' = "writeGeocodeCache"
    /\ UNCHANGED <<tracker, config, now, nscans, napi, nfail, dedupIds, reportedIds,
                   scanRun, deletedIds, fnArgs, fnResult, geo, server>>

\* await fs.writeFile(GEOCODE_CACHE_PATH, ...)
WriteGeocodeCache ==
    /\ pc = "writeGeocodeCache"
    /\ disk' = [disk EXCEPT !["geocodeCache"] = nscans]
    /\ pc' = "writeRouteCache"
    /\ UNCHANGED <<tracker, latest, config, now, nscans, napi, nfail, dedupIds, reportedIds,
                   scanRun, deletedIds, fnArgs, fnResult, geo, server>>

\* await fs.writeFile(ROUTE_CACHE_PATH, ...), after which main returns
WriteRouteCache ==
    /\ pc = "writeRouteCache"
    /\ disk' = [disk EXCEPT !["routeCache"] = nscans]
    /\ pc' = "idle"
    /\ scanRun' = NoRun
    /\ UNCHANGED <<tracker, latest, config, now, nscans, napi, nfail, dedupIds, reportedIds,
                   deletedIds, fnArgs, fnResult, geo, server>>

\* The process dies or a write throws: main().catch exits with code 1 and the
\* close handler of runScan rejects. Nothing is rolled back.
ScanCrash ==
    /\ pc \in {"writeTracker", "writeLatest", "writeGeocodeCache", "writeRouteCache"}
    /\ pc' = "crashed"
    /\ UNCHANGED <<tracker, latest, config, now, nscans, napi, nfail, dedupIds, reportedIds,
                   disk, scanRun, deletedIds, fnArgs, fnResult, geo, server>>

NextWrites ==
    \/ ScanBeginStep
    \/ WriteTracker
    \/ WriteLatest
    \/ WriteGeocodeCache
    \/ WriteRouteCache
    \/ ScanCrash

SpecWrites == Init /\ [][NextWrites]_vars

\* ------------------------------------------- the functions, called on their own
\* A scraped listing with the travel fields of the enrichment
FnListing(id, source, area, rooms, surfaceM2, totalChf, kind, stage, transit, images, hits) ==
    [id |-> id, source |-> source, area |-> area, address |-> <<"Rue du Lac 1">>,
     rooms |-> rooms, surfaceM2 |-> surfaceM2, totalChf |-> totalChf,
     kind |-> kind, listingStage |-> stage, publishedAt |-> Null,
     moveIn |-> NullStr, imageCount |-> images, priceRawParses |-> ~IsNullish(totalChf),
     pearlHits |-> hits, landlordListed |-> FALSE, saleText |-> FALSE,
     duplicateSources |-> <<>>, transitMinutes |-> transit, driveMinutes |-> Null]

FnRooms == {10, 20, 24}
FnSurfaces == {45, 61}
FnTotals == {Null, 1300, 1450, 1500, 1550, 3500}
FnKinds == {"appartement", "studio"}
FnAreas == {"Vevey", "Montreux"}
FnStages == {"", "off_market"}
FnTransits == {Null, 45, 120}
FnHits == {0, 1}

FnFirst ==
    {FnListing("a", "immobilier.ch", area, rooms, surface, total, kind, stage, transit, 3, hits) :
        area \in FnAreas, rooms \in FnRooms, surface \in FnSurfaces, total \in FnTotals,
        kind \in FnKinds, stage \in FnStages, transit \in FnTransits, hits \in FnHits}

\* The same flat as another source, or the same source under another id, reports it
FnSecond(a) ==
    {[a EXCEPT !.id = "b", !.source = source, !.imageCount = images,
               !.rooms = a.rooms + d[1], !.surfaceM2 = a.surfaceM2 + d[2]] :
        source \in {"immobilier.ch", "flatfox.ch"}, images \in {3, 4},
        d \in {<<0, 0>>, <<2, 3>>}}

FnConfigs == {BaseConfig, [BaseConfig EXCEPT !.pearl.enabled = FALSE]}

\* The flats reported twice: every room count and surface, priced or not
FnTwice ==
    {a \in FnFirst : /\ a.area = "Vevey" /\ a.kind = "appartement" /\ a.listingStage = ""
                     /\ a.transitMinutes = Null /\ a.pearlHits = 0
                     /\ a.totalChf \in {Null, 1300}}

\* Listings whose rooms, surface and price are each null or missing, as the
\* pre-marketing projects of retraitespopulaires.ch are scraped
FnUnknown ==
    {FnListing("a", "retraitespopulaires.ch", "Vevey", rooms, surface, total,
               "projet", "off_market", Null, 0, 0) :
        rooms \in {Null, Undef}, surface \in {Null, Undef}, total \in {Null, Undef}}

\* What the adapters return when pages overlap: two or three records, some
\* under the same id, with more or fewer images and the price of the day
FnRepeated ==
    LET recs == {FnListing(id, "immobilier.ch", "Vevey", 20, 61, total, "appartement", "",
                           Null, images, 0) :
                    id \in {"a", "b"}, total \in {1300, 1500}, images \in {3, 4}} IN
    [1..2 -> recs] \cup [1..3 -> recs]

\* The day of the evaluation and the day the listing was first tracked
FnToday == 10
FnFirstSeen == 5

\* Listings that pass or fail each gate: a room to let or a flat, small or
\* large, at every price, on or off the market, published yesterday, a week
\* ago or at no known date, with or without the keywords of a pearl
FnGated ==
    {[FnListing("a", "immobilier.ch", "Montreux", rooms, 61, total, kind, stage, Null, 3, hits)
        EXCEPT !.publishedAt = published] :
        rooms \in {10, 24}, total \in FnTotals, kind \in {"appartement", "chambre"},
        stage \in FnStages, published \in {Null, FnToday - 1, FnToday - 7}, hits \in FnHits}

\* Some of them, for the profiles that look at the landlord, the area or the source
FnGatedFew ==
    {a \in FnGated : a.rooms = 24 /\ a.pearlHits = 0 /\ a.totalChf \in {1300, 1500}
                     /\ a.publishedAt \in {Null, FnToday - 7}}

\* Profiles with a minimum budget, without the studio transition, or both
FnGateConfigs ==
    {BaseConfig,
     [BaseConfig EXCEPT !.minTotalChf = DefaultMaxTotalChf],
     [BaseConfig EXCEPT !.allowStudioTransition = FALSE],
     [BaseConfig EXCEPT !.minTotalChf = DefaultMaxTotalChf, !.allowStudioTransition = FALSE]}

FnGateInputs ==
    {[items |-> <<a>>, config |-> cfg, trackedIds |-> {}] : a \in FnGated, cfg \in FnGateConfigs}
    \cup {[items |-> <<[a EXCEPT !.landlordListed = listed]>>,
           config |-> [BaseConfig EXCEPT !.nonSpeculativeOnly = TRUE,
                                         !.nonSpeculativeGroups = {"cooperative"}],
           trackedIds |-> {}] : a \in FnGatedFew, listed \in BOOLEAN}
    \cup {[items |-> <<a>>, config |-> [BaseConfig EXCEPT !.areas = {"Vevey"}],
           trackedIds |-> {}] : a \in FnGatedFew}
    \cup {[items |-> <<[a EXCEPT !.source = "anibis.ch"]>>,
           config |-> [BaseConfig EXCEPT !.sources.anibis = FALSE],
           trackedIds |-> {}] : a \in FnGatedFew}

\* One listing under either configuration, a flat reported twice while the
\* second report is tracked or not, or two listings of unknown size and price
\* at one address
FnInputs ==
    {[items |-> <<a>>, config |-> cfg, trackedIds |-> {}] :
        a \in FnFirst \cup FnUnknown, cfg \in FnConfigs}
    \cup UNION {{[items |-> <<a, b>>, config |-> BaseConfig, trackedIds |-> trk] :
                    b \in FnSecond(a), trk \in {{}, {"a"}, {"b"}}} :
                a \in FnTwice}
    \cup {[items |-> <<a, [a EXCEPT !.id = "b"]>>, config |-> BaseConfig, trackedIds |-> {}] :
            a \in FnUnknown}
    \cup {[items |-> q, config |-> BaseConfig, trackedIds |-> {}] : q \in FnRepeated}
    \cup FnGateInputs

CallDedupe ==
    /\ fnResult = NoResult
    /\ fnResult' = [fn |-> "dedupeCrossSourceListings",
                    value |-> dedupeCrossSourceListings(fnArgs.items, fnArgs.trackedIds)]
    /\ UNCHANGED <<tracker, latest, config, now, nscans, napi, nfail, dedupIds, reportedIds,
                   disk, pc, scanRun, deletedIds, fnArgs, geo, server>>

\* The dedupById loop of main on the scraped records
CallDedupById ==
    /\ fnResult = NoResult
    /\ fnResult' = [fn |-> "dedupById",
                    value |-> DedupByIdLoop(fnArgs.items, fnArgs.trackedIds, <<>>)]
    /\ UNCHANGED <<tracker, latest, config, now, nscans, napi, nfail, dedupIds, reportedIds,
                   disk, pc, scanRun, deletedIds, fnArgs, geo, server>>

CallBuildKey ==
    /\ fnResult = NoResult
    /\ fnResult' = [fn |-> "buildCrossSourceDedupKey",
                    value |-> buildCrossSourceDedupKey(fnArgs.items[1])]
    /\ UNCHANGED <<tracker, latest, config, now, nscans, napi, nfail, dedupIds, reportedIds,
                   disk, pc, scanRun, deletedIds, fnArgs, geo, server>>

CallComputeScore ==
    /\ fnResult = NoResult
    /\ fnResult' = [fn |-> "computeScore",
                    value |-> [score |-> computeScore(fnArgs.items[1], fnArgs.config),
                               reasons |-> scoreReasons(fnArgs.items[1], fnArgs.config)]]
    /\ UNCHANGED <<tracker, latest, config, now, nscans, napi, nfail, dedupIds, reportedIds,
                   disk, pc, scanRun, deletedIds, fnArgs, geo, server>>

CallIsPearl ==
    /\ fnResult = NoResult
    /\ fnResult' = [fn |-> "isPearl", value |-> isPearl(fnArgs.items[1], fnArgs.config)]
    /\ UNCHANGED <<tracker, latest, config, now, nscans, napi, nfail, dedupIds, reportedIds,
                   disk, pc, scanRun, deletedIds, fnArgs, geo, server>>

\* The entry of the listing as the scan of day FnFirstSeen wrote it
FnOld(item) == MergePresent(item, <<>>, {}, BaseConfig, FnFirstSeen, "ok")

\* The first loop of main on one listing of the batch, new or already tracked
CallMergePresent ==
    /\ fnResult = NoResult
    /\ Len(fnArgs.items) = 1
    /\ \E tracked \in BOOLEAN :
          LET item == fnArgs.items[1]
              trk == IF tracked THEN <<FnOld(item)>> ELSE <<>> IN
          fnResult' = [fn |-> "mergePresent", tracked |-> tracked, old |-> FnOld(item),
                       requested |-> EnrichmentWanted(Refresh(item, fnArgs.config, FnToday).display),
                       value |-> MergePresent(item, trk, TrackerIds(trk), fnArgs.config,
                                              FnToday, "ok")]
    /\ UNCHANGED <<tracker, latest, config, now, nscans, napi, nfail, dedupIds, reportedIds,
                   disk, pc, scanRun, deletedIds, fnArgs, geo, server>>

\* The second loop of main on one tracked listing that the batch does not
\* hold, while the batch holds or not an active listing of the same key
CallMergeAbsent ==
    /\ fnResult = NoResult
    /\ Len(fnArgs.items) = 1
    /\ \E dup \in BOOLEAN :
          LET old == FnOld(fnArgs.items[1])
              key == buildCrossSourceDedupKey(old)
              activeDedupKeys == IF dup /\ key # NoKey THEN {key} ELSE {} IN
          fnResult' = [fn |-> "mergeAbsent", old |-> old, dup |-> dup,
                       requested |-> AbsentEnrichmentRequested(old, activeDedupKeys,
                                                               fnArgs.config, FnToday),
                       value |-> MergeAbsent(old, activeDedupKeys, fnArgs.config, FnToday, "ok")]
    /\ UNCHANGED <<tracker, latest, config, now, nscans, napi, nfail, dedupIds, reportedIds,
                   disk, pc, scanRun, deletedIds, fnArgs, geo, server>>

InitFunctions ==
    /\ tracker = <<>>
    /\ latest = EmptyLatest
    /\ config = BaseConfig
    /\ now = 1
    /\ nscans = 0
    /\ napi = 0
    /\ nfail = 0
    /\ dedupIds = {}
    /\ reportedIds = {}
    /\ disk = [d \in Docs |-> 0]
    /\ pc = "idle"
    /\ scanRun = NoRun
    /\ deletedIds = {}
    /\ fnArgs \in FnInputs
    /\ fnResult = NoResult
    /\ geo = NoGeo
    /\ server = NoServer

NextFunctions ==
    \/ CallDedupById
    \/ CallDedupe
    \/ CallBuildKey
    \/ CallComputeScore
    \/ CallIsPearl
    \/ CallMergePresent
    \/ CallMergeAbsent

SpecFunctions == InitFunctions /\ [][NextFunctions]_vars

\* --------------------------------------------------------- the route cache
\* TRAVEL_CACHE_TTL_MS, in hours
TravelCacheTtlHours == 12

\* The hour at which the route planners are asked
RouteNow == 40

\* routeCache[key] when the key is not in the cache
NoEntry == [minutes |-> Undef, updatedAt |-> Undef]

isCacheFresh(entry, nowHours) ==
    IF entry = NoEntry \/ IsNullish(entry.updatedAt) THEN FALSE
    ELSE nowHours - entry.updatedAt <= TravelCacheTtlHours

getCachedRouteMinutes(entry, nowHours) ==
    IF entry = NoEntry THEN [hasValue |-> FALSE, minutes |-> Null, fresh |-> FALSE]
    ELSE [hasValue |-> TRUE, minutes |-> toDurationMinutesOrNull(entry.minutes),
          fresh |-> isCacheFresh(entry, nowHours)]

setCachedRouteMinutes(minutes, nowHours) ==
    [minutes |-> toDurationMinutesOrNull(minutes), updatedAt |-> nowHours]

\* Math.round(seconds / 60)
RoundMinutes(seconds) == (seconds + 30) \div 60

\* if (cached.fresh && cached.minutes != null) return cached.minutes
UseCached(cached) == cached.fresh /\ cached.minutes # Null

\* What the request of a route planner gives: it throws, or it answers with
\* a duration (seconds of the first route, minutes of the first connection)
\* or without one
Throws == [throws |-> TRUE, duration |-> Undef]
Answers(durations) == {[throws |-> FALSE, duration |-> d] : d \in durations}

\* fetchDrivingMinutes: the minutes returned, the entry of the key after the
\* call, and whether a request was sent; answer is Throws or the seconds of
\* payload.routes[0].duration
fetchDrivingMinutes(entry, answer, nowHours) ==
    LET cached == getCachedRouteMinutes(entry, nowHours) IN
    IF UseCached(cached)
    THEN [minutes |-> cached.minutes, entry |-> entry, requested |-> FALSE]
    ELSE IF answer = Throws
    THEN [minutes |-> IF cached.hasValue THEN cached.minutes ELSE Null,
          entry |-> entry, requested |-> TRUE]
    ELSE LET seconds == answer.duration
             minutes == IF IsFiniteNumber(seconds) /\ NumberOf(seconds) > 0
                        THEN Max(1, RoundMinutes(seconds)) ELSE Null IN
         [minutes |-> minutes, entry |-> setCachedRouteMinutes(minutes, nowHours),
          requested |-> TRUE]

\* fetchTransitMinutes; answer is Throws or the minutes that
\* parseTransportDurationToMinutes reads in connections[0].duration
fetchTransitMinutes(entry, answer, nowHours) ==
    LET cached == getCachedRouteMinutes(entry, nowHours) IN
    IF UseCached(cached)
    THEN [minutes |-> cached.minutes, entry |-> entry, requested |-> FALSE]
    ELSE IF answer = Throws
    THEN [minutes |-> IF cached.hasValue THEN cached.minutes ELSE Null,
          entry |-> entry, requested |-> TRUE]
    ELSE LET minutes == IF ~IsNullish(answer.duration) /\ answer.duration > 0
                        THEN answer.duration ELSE Null IN
         [minutes |-> minutes, entry |-> setCachedRouteMinutes(minutes, nowHours),
          requested |-> TRUE]

\* The entry of the key before the call: none, or minutes (none, 25 or 40)
\* written just now, 11, 13 or 30 hours ago
RouteEntries ==
    {NoEntry} \cup {[minutes |-> m, updatedAt |-> RouteNow - age] :
                        m \in {Null, 25, 40}, age \in {0, 11, 13, 30}}

\* The planner throws, answers without a route, or with one of 0, 10, 1790
\* or 2400 seconds (driving) or of 0, 45 or 52 minutes (transit)
DriveAnswers == {Throws} \cup Answers({Undef, 0, 10, 1790, 2400})
TransitAnswers == {Throws} \cup Answers({Null, 0, 45, 52})

RouteInputs ==
    {[planner |-> "drive", entry |-> e, answer |-> a] : e \in RouteEntries, a \in DriveAnswers}
    \cup {[planner |-> "transit", entry |-> e, answer |-> a] :
            e \in RouteEntries, a \in TransitAnswers}

CallFetchDrivingMinutes ==
    /\ fnResult = NoResult
    /\ fnArgs.planner = "drive"
    /\ fnResult' = [fn |-> "fetchDrivingMinutes",
                    value |-> fetchDrivingMinutes(fnArgs.entry, fnArgs.answer, RouteNow)]
    /\ UNCHANGED <<tracker, latest, config, now, nscans, napi, nfail, dedupIds, reportedIds,
                   disk, pc, scanRun, deletedIds, fnArgs, geo, server>>

CallFetchTransitMinutes ==
    /\ fnResult = NoResult
    /\ fnArgs.planner = "transit"
    /\ fnResult' = [fn |-> "fetchTransitMinutes",
                    value |-> fetchTransitMinutes(fnArgs.entry, fnArgs.answer, RouteNow)]
    /\ UNCHANGED <<tracker, latest, config, now, nscans, napi, nfail, dedupIds, reportedIds,
                   disk, pc, scanRun, deletedIds, fnArgs, geo, server>>

InitRoute ==
    /\ tracker = <<>>
    /\ latest = EmptyLatest
    /\ config = BaseConfig
    /\ now = 1
    /\ nscans = 0
    /\ napi = 0
    /\ nfail = 0
    /\ dedupIds = {}
    /\ reportedIds = {}
    /\ disk = [d \in Docs |-> 0]
    /\ pc = "idle"
    /\ scanRun = NoRun
    /\ deletedIds = {}
    /\ fnArgs \in RouteInputs
    /\ fnResult = NoResult
    /\ geo = NoGeo
    /\ server = NoServer

NextRoute ==
    \/ CallFetchDrivingMinutes
    \/ CallFetchTransitMinutes

SpecRoute == InitRoute /\ [][NextRoute]_vars

\* ------------------------------------------------------------ the geocoder
\* Calls of geocodeAddress and requests to Nominatim in one scan process
MaxGeoCalls == 3

\* How long the process goes on, in tenths of a second
MaxGeoTime == 30

\* The spacing geocodeAddress keeps, in tenths of a second (1100 ms)
GeocodeSpacing == 11

\* query.toLowerCase()
GeoKey(query) ==
    CASE query = "Rue du Lac 1, Vevey" -> "rue du lac 1, vevey"
      [] query = "rue du lac 1, vevey" -> "rue du lac 1, vevey"
      [] query = "Av. Gare 2, Montreux" -> "av. gare 2, montreux"

GeoQueries == {"Rue du Lac 1, Vevey", "rue du lac 1, vevey", "Av. Gare 2, Montreux"}

\* What Nominatim and Photon do with a request, and how long a request takes
NominatimAnswers == {"found", "empty", "throws"}
PhotonAnswers == {"found", "none", "throws"}
GeoLatencies == {1, 4}

\* geocodeAddress(query, geocodeCache): the whole call, with the sleep, the
\* request to Nominatim and, when it gives no point, the request to Photon
geocodeAddress(query, nominatim, photon, latency) ==
    LET key == GeoKey(query) IN
    /\ Len(geo.sent) < MaxGeoCalls
    /\ geo.clock < GeoStart + MaxGeoTime
    /\ IF key \in geo.geocodeCache
       THEN geo' = [geo EXCEPT !.sent = Append(@, [at |-> geo.clock, cached |-> TRUE])]
       ELSE LET elapsed == geo.clock - geo.lastGeocodeRequestAt
                start == IF elapsed < GeocodeSpacing
                         THEN geo.clock + (GeocodeSpacing - elapsed) ELSE geo.clock
                answered == start + latency
                found == nominatim = "found"
                done == IF found THEN answered ELSE answered + latency IN
            geo' = [clock |-> done,
                    lastGeocodeRequestAt |-> IF nominatim = "throws"
                                             THEN geo.lastGeocodeRequestAt ELSE answered,
                    geocodeCache |-> IF found \/ photon = "found"
                                     THEN geo.geocodeCache \cup {key} ELSE geo.geocodeCache,
                    sent |-> Append(geo.sent, [at |-> start, cached |-> FALSE])]
    /\ UNCHANGED <<tracker, latest, config, now, nscans, napi, nfail, dedupIds, reportedIds,
                   disk, pc, scanRun, deletedIds, fnArgs, fnResult, server>>

GeocodeAddressStep ==
    \E query \in GeoQueries, nominatim \in NominatimAnswers, photon \in PhotonAnswers,
       latency \in GeoLatencies :
        geocodeAddress(query, nominatim, photon, latency)

\* The scan does something else between two calls
GeoPass ==
    /\ geo.clock < GeoStart + MaxGeoTime
    /\ \E d \in {20} : geo' = [geo EXCEPT !.clock = @ + d]
    /\ UNCHANGED <<tracker, latest, config, now, nscans, napi, nfail, dedupIds, reportedIds,
                   disk, pc, scanRun, deletedIds, fnArgs, fnResult, server>>

NextGeocode ==
    \/ GeocodeAddressStep
    \/ GeoPass

SpecGeocode == Init /\ [][NextGeocode]_vars

\* ------------------------------------------------- loading the documents
\* What a scan may find at TRACKER_PATH or LATEST_PATH.  A file is absent,
\* unreadable, not JSON, or holds a JSON value: null, a number, or an object
\* whose listings / all member is absent, null, an object, a non-empty string
\* or an array.  The entries of a well-formed file are those of the variable
\* tracker or latest.
MaxFileScans == 2    \* scans that load the documents in one run

WellFormed == [kind |-> "json", type |-> "object", member |-> "array"]

FileStates ==
    {[kind |-> k, type |-> "none", member |-> "none"] :
        k \in {"missing", "unreadable", "not json"}}
    \cup {[kind |-> "json", type |-> t, member |-> "none"] : t \in {"null", "number"}}
    \cup {[kind |-> "json", type |-> "object", member |-> m] :
            m \in {"absent", "null", "object", "string", "array"}}

\* The two files of a profile, at most one of them damaged
FilePairs ==
    {p \in [trackerFile : FileStates, latestFile : FileStates] :
        p.trackerFile = WellFormed \/ p.latestFile = WellFormed}

\* readJsonSafe(filePath, fallback): the fallback when readFile or JSON.parse
\* throws, the parsed value otherwise
readJsonSafe(file, fallback) ==
    IF file.kind = "json" THEN file ELSE fallback

\* (doc.listings || []) handed to toMap, (doc.all || []).map(...): reading a
\* member of null throws a TypeError, and so does .map of a value that is
\* truthy and no array
MemberList(doc, items) ==
    CASE doc.type = "null" -> [throws |-> TRUE, list |-> <<>>]
      [] doc.type = "number" -> [throws |-> FALSE, list |-> <<>>]
      [] doc.member \in {"absent", "null"} -> [throws |-> FALSE, list |-> <<>>]
      [] doc.member = "array" -> [throws |-> FALSE, list |-> items]
      [] OTHER -> [throws |-> TRUE, list |-> <<>>]

\* const previousLatest = await readJsonSafe(LATEST_PATH, { all: [] });
\* const prevIds = new Set((previousLatest.all || []).map((x) => String(x.id)));
LoadLatest(file, l) ==
    MemberList(readJsonSafe(file, WellFormed),
               IF file.kind = "json" THEN l.all ELSE <<>>)

\* const tracker = await readJsonSafe(TRACKER_PATH, {..., listings: []});
\* const trackerMap = toMap(tracker.listings || []);
LoadTracker(file, trk) ==
    MemberList(readJsonSafe(file, WellFormed),
               IF file.kind = "json" THEN trk ELSE <<>>)

\* main() of scrape-immobilier.mjs from the files on: a TypeError while
\* loading rejects main(), the process exits with code 1 and writes nothing
mainFromFiles(scraped, recov, net) ==
    LET l == LoadLatest(fnArgs.latestFile, latest)
        t == LoadTracker(fnArgs.trackerFile, tracker) IN
    IF l.throws \/ t.throws
    THEN /\ fnResult' = [fn |-> "main", exit |-> 1, files |-> fnArgs, batch |-> {}]
         /\ UNCHANGED <<tracker, latest, config, now, nscans, napi, nfail, dedupIds,
                        reportedIds, disk, pc, scanRun, deletedIds, fnArgs, geo, server>>
    ELSE /\ nscans < MaxFileScans
         /\ ScanFrom(t.list, TrackerIds(l.list), scraped, recov, net)
         /\ fnArgs' = [trackerFile |-> WellFormed, latestFile |-> WellFormed]
         /\ fnResult' = [fn |-> "main", exit |-> 0, files |-> fnArgs,
                         batch |-> TrackerIds(DedupedBatch(t.list, config, scraped, recov))]

MainFromFilesStep ==
    \E scraped \in Batches(config) :
      \E recov \in RecovChoices(LoadTracker(fnArgs.trackerFile, tracker).list, config, scraped) :
        \E net \in NetOutcomes :
          mainFromFiles(scraped, recov, net)

\* The files are damaged between two scans
DamageFiles ==
    /\ nscans = 1
    /\ fnArgs = [trackerFile |-> WellFormed, latestFile |-> WellFormed]
    /\ \E f \in FileStates \ {WellFormed} :
         \/ fnArgs' = [fnArgs EXCEPT !.trackerFile = f]
         \/ fnArgs' = [fnArgs EXCEPT !.latestFile = f]
    /\ UNCHANGED <<tracker, latest, config, now, nscans, napi, nfail, dedupIds,
                   reportedIds, disk, pc, scanRun, deletedIds, fnResult, geo, server>>

InitFiles ==
    /\ tracker = <<>>
    /\ latest = EmptyLatest
    /\ config = BaseConfig
    /\ now = 1
    /\ nscans = 0
    /\ napi = 0
    /\ nfail = 0
    /\ dedupIds = {}
    /\ reportedIds = {}
    /\ disk = [d \in Docs |-> 0]
    /\ pc = "idle"
    /\ scanRun = NoRun
    /\ deletedIds = {}
    /\ fnArgs \in FilePairs
    /\ fnResult = NoResult
    /\ geo = NoGeo
    /\ server = NoServer

NextFiles ==
    \/ MainFromFilesStep
    \/ DamageFiles

SpecFiles == InitFiles /\ [][NextFiles]_vars

\* ------------------------------------------------ the adapters that fail
\* One request of an adapter: the pages of immobilier.ch for an area, the
\* flatfox.ch listings of an area token, the anibis.ch query of an area
Fetches == {[source |-> r.source, area |-> r.area] : r \in Catalog}

\* The requests that fail in one scan: none, one of them, or all of a source
FailureSets ==
    {{}} \cup {{f} : f \in Fetches}
         \cup {{f \in Fetches : f.source = r.source} : r \in Catalog}

MaxSourceScans == 2    \* scans with failing adapters in one run

FetchOf(r) == [source |-> r.source, area |-> r.area]

\* An adapter without the try / catch: the error of a request leaves it
AdapterOutcomeUncaught(source, offered, failed) ==
    [aborts |-> \E f \in failed : f.source = source,
     items |-> SelectSeq(offered, LAMBDA r : r.source = source /\ FetchOf(r) \notin failed)]

\* The try / catch around each request (main's page loop, scrapeFlatfoxListings,
\* scrapeAnibisListings): a request that throws is logged and adds nothing
\* to the adapter's result
AdapterOutcome(source, offered, failed) ==
    [aborts |-> FALSE,
     items |-> SelectSeq(offered, LAMBDA r : r.source = source /\ FetchOf(r) \notin failed)]

\* const scraped = []; ... scraped.push(...items) adapter after adapter
Scraped(offered, failed) ==
    LET a1 == AdapterOutcome("immobilier.ch", offered, failed)
        a2 == AdapterOutcome("flatfox.ch", offered, failed)
        a7 == AdapterOutcome("anibis.ch", offered, failed) IN
    [aborts |-> a1.aborts \/ a2.aborts \/ a7.aborts,
     items |-> a1.items \o a2.items \o a7.items]

\* main() of scrape-immobilier.mjs with the requests of the adapters: offered
\* is what the sites hold, failed the requests that throw
mainWithSources(offered, failed, recov, net) ==
    LET s == Scraped(offered, failed) IN
    IF s.aborts
    THEN /\ fnResult' = [fn |-> "main", exit |-> 1, offered |-> offered, failed |-> failed]
         /\ UNCHANGED <<tracker, latest, config, now, nscans, napi, nfail, dedupIds,
                        reportedIds, disk, pc, scanRun, deletedIds, fnArgs, geo, server>>
    ELSE /\ nscans < MaxSourceScans
         /\ ScanFrom(tracker, LatestIds(latest), s.items, recov, net)
         /\ fnResult' = [fn |-> "main", exit |-> 0, offered |-> offered, failed |-> failed]
         /\ UNCHANGED fnArgs

MainWithSourcesStep ==
    \E offered \in Batches(config), failed \in FailureSets :
      \E recov \in RecovChoices(tracker, config, Scraped(offered, failed).items) :
        \E net \in NetOutcomes :
          mainWithSources(offered, failed, recov, net)

NextSources ==
    \/ MainWithSourcesStep

SpecSources == Init /\ [][NextSources]_vars

\* ------------------------------------- the dashboard while a scan is running
\* POST /api/run-scan spawns the scan as a child process and the server goes
\* on answering: updateStatus, togglePin and deleteListing read and write the
\* documents of the profile while the child is between its reads and its writes
NextConcurrent ==
    \/ ScanBeginStep
    \/ WriteTracker
    \/ WriteLatest
    \/ WriteGeocodeCache
    \/ WriteRouteCache
    \/ UpdateStatusStep
    \/ TogglePinStep
    \/ DeleteListingStep

SpecConcurrent == Init /\ [][NextConcurrent]_vars

\* ------------------------------------------------- the dashboard server
MaxRequests == 3     \* requests the server answers in one run
MaxChildren == 3     \* scan processes spawned in one run

LowerCase == <<"a", "b", "c", "d", "e", "f", "g", "h", "i", "j", "k", "l", "m",
               "n", "o", "p", "q", "r", "s", "t", "u", "v", "w", "x", "y", "z">>
UpperCase == <<"A", "B", "C", "D", "E", "F", "G", "H", "I", "J", "K", "L", "M",
               "N", "O", "P", "Q", "R", "S", "T", "U", "V", "W", "X", "Y", "Z">>
Digits == {"0", "1", "2", "3", "4", "5", "6", "7", "8", "9"}

\* String.prototype.toLowerCase, character by character
toLowerCase(text) ==
    [i \in 1..Len(text) |->
        IF \E k \in 1..26 : UpperCase[k] = text[i]
        THEN LowerCase[CHOOSE k \in 1..26 : UpperCase[k] = text[i]]
        ELSE text[i]]

\* String.prototype.trim
RECURSIVE trim(_)
trim(text) ==
    IF text # <<>> /\ Head(text) = " " THEN trim(Tail(text))
    ELSE IF text # <<>> /\ text[Len(text)] = " " THEN trim(SubSeq(text, 1, Len(text) - 1))
    ELSE text

\* /^[a-z0-9-]+$/.test(clean)
IsSlug(clean) ==
    /\ clean # <<>>
    /\ \A i \in 1..Len(clean) :
         clean[i] \in {LowerCase[k] : k \in 1..26} \cup Digits \cup {"-"}

\* sanitizeProfile(value = 'fribourg')
sanitizeProfile(value) ==
    LET clean == toLowerCase(trim(IF value = <<>> THEN Fribourg ELSE value)) IN
    IF IsSlug(clean) THEN clean ELSE Fribourg

\* The slugs and profile parameters of the requests
SlugInputs ==
    {<<>>, Vevey, Nyon, <<"N", "y", "o", "n", " ">>,
     <<".", ".", "/", "v", "e", "v", "e", "y">>, <<"n", "y", " ", "o", "n">>}

ConfigPayloads == {"config 1", "config 2"}

Answered(op, slug, status) ==
    [op |-> op, slug |-> slug, status |-> status]

\* POST /api/profile/create
profileCreate(profiles, input, cfg) ==
    LET slug == sanitizeProfile(input) IN
    IF slug = <<>> THEN [profiles |-> profiles, status |-> 400]
    ELSE IF profiles[slug].config # "none" THEN [profiles |-> profiles, status |-> 409]
    ELSE [profiles |-> [profiles EXCEPT ![slug] = [config |-> cfg, data |-> "empty"]],
          status |-> 201]

\* POST /api/profile/update
profileUpdate(profiles, input, cfg) ==
    LET slug == sanitizeProfile(input) IN
    IF slug = <<>> THEN [profiles |-> profiles, status |-> 400]
    ELSE IF profiles[slug].config = "none" THEN [profiles |-> profiles, status |-> 404]
    ELSE [profiles |-> [profiles EXCEPT ![slug].config = cfg], status |-> 200]

\* POST /api/profile/delete
profileDelete(profiles, input) ==
    LET clean == sanitizeProfile(input) IN
    IF clean = <<>> THEN [profiles |-> profiles, status |-> 400]
    ELSE IF profiles[clean].config = "none" THEN [profiles |-> profiles, status |-> 404]
    ELSE [profiles |-> [profiles EXCEPT ![clean] = NoProfile], status |-> 200]

ProfileRequest ==
    /\ server.requests < MaxRequests
    /\ \E input \in SlugInputs, cfg \in ConfigPayloads,
          op \in {"create", "update", "delete"} :
         LET r == CASE op = "create" -> profileCreate(server.profiles, input, cfg)
                    [] op = "update" -> profileUpdate(server.profiles, input, cfg)
                    [] OTHER -> profileDelete(server.profiles, input) IN
         server' = [server EXCEPT !.profiles = r.profiles,
                                  !.requests = @ + 1,
                                  !.http = Answered(op, input, r.status)]
    /\ UNCHANGED <<tracker, latest, config, now, nscans, napi, nfail, dedupIds, reportedIds,
                   disk, pc, scanRun, deletedIds, fnArgs, fnResult, geo>>

\* ensureProfileStorage(profile): the directory is made and a profile without
\* watch-config.json gets a default one
ensureProfileStorage(profiles, profile) ==
    IF profiles[profile].config = "none"
    THEN [profiles EXCEPT ![profile].config = "default"]
    ELSE profiles

\* profiles.sort((a, b) => a.slug.localeCompare(b.slug)), the slugs of the
\* model differing in their first letter
RECURSIVE SortedSlugs(_)
SortedSlugs(set) ==
    IF set = {} THEN <<>>
    ELSE LET rank(s) == CHOOSE k \in 1..26 : LowerCase[k] = s[1]
             first == CHOOSE s \in set : \A t \in set : rank(s) <= rank(t) IN
         <<first>> \o SortedSlugs(set \ {first})

\* listProfiles(): the directories with a readable watch-config.json, by slug
listProfiles(profiles) ==
    SortedSlugs({s \in Slugs : profiles[s].config # "none"})

\* runScan(profile): spawn(process.execPath, [SCRAPE_SCRIPT, --profile=...])
runScan(srv, profile, job) ==
    [srv EXCEPT !.children = @ \cup {[pid |-> srv.spawned + 1, profile |-> profile, job |-> job]},
                !.spawned = @ + 1]

\* POST /api/run-scan?profile=...
RunScanRequest ==
    /\ server.requests < MaxRequests
    /\ server.spawned < MaxChildren
    /\ \E input \in SlugInputs :
         LET profile == sanitizeProfile(input)
             stored == [server EXCEPT !.profiles = ensureProfileStorage(@, profile),
                                      !.requests = @ + 1,
                                      !.http = Answered("run-scan", input, 0)] IN
         server' = runScan(stored, profile, 0)
    /\ UNCHANGED <<tracker, latest, config, now, nscans, napi, nfail, dedupIds, reportedIds,
                   disk, pc, scanRun, deletedIds, fnArgs, fnResult, geo>>

\* POST /api/run-scan-all: the job is registered and answered with 202
RunScanAllRequest ==
    /\ server.requests < MaxRequests
    /\ server.scanAllJobs = {}
    /\ server' = [server EXCEPT
                    !.scanAllJobs = {[slugs |-> listProfiles(server.profiles), waiting |-> FALSE]},
                    !.requests = @ + 1,
                    !.http = Answered("run-scan-all", <<>>, 202)]
    /\ UNCHANGED <<tracker, latest, config, now, nscans, napi, nfail, dedupIds, reportedIds,
                   disk, pc, scanRun, deletedIds, fnArgs, fnResult, geo>>

\* for (const slug of slugs) { await ensureProfileStorage(slug); await runScan(slug); ... }
ScanAllLoop ==
    /\ server.spawned < MaxChildren
    /\ \E job \in server.scanAllJobs :
         /\ ~job.waiting
         /\ job.slugs # <<>>
         /\ LET slug == Head(job.slugs)
                stored == [server EXCEPT
                             !.profiles = ensureProfileStorage(@, slug),
                             !.scanAllJobs = {[slugs |-> Tail(job.slugs), waiting |-> TRUE]}] IN
            server' = runScan(stored, slug, 1)
    /\ UNCHANGED <<tracker, latest, config, now, nscans, napi, nfail, dedupIds, reportedIds,
                   disk, pc, scanRun, deletedIds, fnArgs, fnResult, geo>>

\* child.on('close', ...): the promise of runScan settles
ChildClose ==
    /\ \E child \in server.children :
         server' = [server EXCEPT
                      !.children = @ \ {child},
                      !.scanAllJobs = IF child.job = 1
                                      THEN {[j EXCEPT !.waiting = FALSE] : j \in @}
                                      ELSE @]
    /\ UNCHANGED <<tracker, latest, config, now, nscans, napi, nfail, dedupIds, reportedIds,
                   disk, pc, scanRun, deletedIds, fnArgs, fnResult, geo>>

NextServer ==
    \/ ProfileRequest
    \/ RunScanRequest
    \/ RunScanAllRequest
    \/ ScanAllLoop
    \/ ChildClose

SpecServer == Init /\ [][NextServer]_vars

\* --------------------------------------------- the API operations, answered
MaxApiScans == 2     \* scans between the API requests of one run

\* sendJson(res, ok ? 200 : 404, { ok }) of /api/update-status and
\* /api/delete-listing, and pinned === null ? 404 : 200 of /api/toggle-pin:
\* each operation fails exactly when it finds no listing of that id
ApiStatus(trk, id) == IF FindIndex(trk, id) = 0 THEN 404 ELSE 200

ApiAnswer(op, id) ==
    [fn |-> op, id |-> id, status |-> ApiStatus(tracker, id)]

UpdateStatusCall ==
    \E id \in Ids : \E req \in StatusRequests :
        /\ updateStatus(id, req.status, req.notes)
        /\ fnResult' = ApiAnswer("updateStatus", id)

TogglePinCall ==
    \E id \in Ids : togglePin(id) /\ fnResult' = ApiAnswer("togglePin", id)

DeleteListingCall ==
    \E id \in Ids : deleteListing(id) /\ fnResult' = ApiAnswer("deleteListing", id)

ApiScanStep == nscans < MaxApiScans /\ ScanStep

NextApi ==
    \/ ApiScanStep
    \/ UpdateStatusCall
    \/ TogglePinCall
    \/ DeleteListingCall

SpecApi == Init /\ [][NextApi]_vars

\* ------------------------------------------ the scan, run again on its input
MaxAgainScans == 2   \* scans before the one that is run again

\* A scan whose inputs, clock and written documents are kept
ScanRecordedStep ==
    /\ fnResult = NoResult
    /\ nscans < MaxAgainScans
    /\ \E scraped \in Batches(config) :
      \E recov \in RecovChoices(tracker, config, scraped) :
        \E net \in NetOutcomes :
          /\ Scan(scraped, recov, net)
          /\ fnArgs' = [items |-> scraped, config |-> config, trackedIds |-> TrackerIds(tracker),
                        recov |-> recov, net |-> net, clock |-> now,
                        written |-> <<tracker', latest'>>]
          /\ UNCHANGED fnResult

\* main() once more, on the documents the recorded scan wrote, with the
\* answers of the sources, the clock and the enrichment results it had
ScanAgain ==
    /\ fnResult = NoResult
    /\ fnArgs # NoArgs
    /\ <<tracker, latest>> = fnArgs.written
    /\ config = fnArgs.config
    /\ fnArgs.recov \in RecovChoices(tracker, config, fnArgs.items)
    /\ LET batch == DedupedBatch(tracker, config, fnArgs.items, fnArgs.recov)
           prevIds == LatestIds(latest)
           merged == Merged(tracker, prevIds, config, fnArgs.clock, batch, fnArgs.net) IN
       /\ tracker' = merged
       /\ latest' = LatestOf(merged, prevIds, fnArgs.clock)
       /\ dedupIds' = TrackerIds(batch)
    /\ reportedIds' = TrackerIds(fnArgs.items)
                        \cup {id \in DOMAIN fnArgs.recov : fnArgs.recov[id] # NoItem}
    /\ nscans' = nscans + 1
    /\ disk' = [d \in Docs |-> nscans + 1]
    /\ fnResult' = [fn |-> "main", value |-> "again"]
    /\ UNCHANGED <<config, now, napi, nfail, pc, scanRun, deletedIds, fnArgs, geo, server>>

\* The profiles saved between the scans that are run again: every threshold,
\* a narrower target area, Anibis disabled
AgainConfigs ==
    {cfg \in Configs : cfg.sources.flatfox /\ cfg.maxTotalHardChf = DefaultHardBudget}

UpdateProfileAgainStep == \E cfg \in AgainConfigs : updateProfile(cfg)

NextAgain ==
    \/ ScanRecordedStep
    \/ UpdateProfileAgainStep
    \/ ScanAgain

SpecAgain == Init /\ [][NextAgain]_vars

\* ------------------------------------------------------------------ claims
\* A step of the scan, and the entry of id before and after it
ScanTaken == nscans' = nscans + 1
Before(id) == EntryOf(tracker, id)
After(id) == EntryOf(tracker', id)
Threshold == missingScansBeforeRemoved(config)
FastExitReasons ==
    {"Doublon inter-source", "Annonce vente exclue (Anibis)",
     "Source Anibis desactivee", "Objet non residentiel (filtre)"}

\* C1: a scan never deletes a tracked listing: every id of the previous
\* tracker is an id of the tracker the scan writes.
C1_ScanKeepsTrackedIds ==
    [][ScanTaken => TrackerIds(tracker) \subseteq TrackerIds(tracker')]_vars

C1_Witness ==
    \E i \in 1..Len(tracker) :
        /\ tracker[i].id \notin dedupIds
        /\ tracker[i].isRemoved
        /\ tracker[i].missingCount >= 2

C3_RemovedAtThreshold ==
    [][ScanTaken =>
        \A id \in TrackerIds(tracker) \ dedupIds' :
            /\ isTargetAreaCity(Before(id).area, buildTargetAreaSet(config.areas))
            /\ Before(id).missingCount + 1 >= Threshold
            => After(id).isRemoved /\ ~After(id).active]_vars

\* C4: missingCount is 0 after a scan whose deduplicated batch holds the id,
\* the previous value plus 1 after a scan whose batch does not, and no other
\* step changes it.
C4_MissingCount ==
    [][/\ \A id \in TrackerIds(tracker) \cap TrackerIds(tracker') :
            After(id).missingCount =
                IF ~ScanTaken THEN Before(id).missingCount
                ELSE IF id \in dedupIds' THEN 0
                ELSE Before(id).missingCount + 1
       /\ \A id \in TrackerIds(tracker') \ TrackerIds(tracker) :
            ScanTaken /\ id \in dedupIds' /\ After(id).missingCount = 0]_vars

C4_Witness ==
    /\ nscans = 3
    /\ \E i, j \in 1..Len(tracker) :
        /\ tracker[i].missingCount = 2
        /\ tracker[j].missingCount = 0
        /\ tracker[j].id \in dedupIds
        /\ tracker[j].firstSeenAt = 1

\* C5: every entry with display=true has exactly one of active and isRemoved
\* true, and no entry has both.
C5_ActiveXorRemoved ==
    \A i \in 1..Len(tracker) :
        /\ tracker[i].display => (tracker[i].active # tracker[i].isRemoved)
        /\ ~(tracker[i].active /\ tracker[i].isRemoved)

C5_Witness ==
    \E i, j, k \in 1..Len(tracker) :
        /\ tracker[i].display /\ tracker[i].isRemoved /\ ~tracker[i].active
        /\ tracker[j].display /\ tracker[j].active /\ ~tracker[j].isRemoved
        /\ tracker[k].filterReason = "Hors zone suivie"

\* C6: a removed listing stays isRemoved=true and active=false after every
\* scan in which no source reports its id.
C6_RemovedStaysRemoved ==
    [][ScanTaken =>
        \A id \in TrackerIds(tracker) \ reportedIds' :
            Before(id).isRemoved => After(id).isRemoved /\ ~After(id).active]_vars

\* C7: no two entries that are both active and displayed have the same
\* cross-source composite dedup key.
C7_NoVisibleDuplicates ==
    \A i, j \in 1..Len(tracker) :
        /\ i # j
        /\ tracker[i].active /\ tracker[i].display
        /\ tracker[j].active /\ tracker[j].display
        /\ buildCrossSourceDedupKey(tracker[i]) # NoKey
        => buildCrossSourceDedupKey(tracker[i]) # buildCrossSourceDedupKey(tracker[j])

\* C8: starting from an empty tracker, after any sequence of scans and API
\* operations no two entries of the tracker have the same id.
C8_UniqueIds ==
    \A i, j \in 1..Len(tracker) : i # j => tracker[i].id # tracker[j].id

C8_Witness ==
    /\ napi = 1
    /\ Len(tracker) = 3
    /\ \E i, j \in 1..Len(tracker) :
        /\ tracker[i].id \in dedupIds /\ tracker[i].firstSeenAt < tracker[i].lastSeenAt
        /\ tracker[j].id \notin dedupIds

\* C9 as stated: a re-confirmed listing keeps status and pinned exactly as
\* they were stored before the scan.
C9_Original ==
    [][ScanTaken =>
        \A id \in TrackerIds(tracker) \cap dedupIds' :
            /\ After(id).status = Before(id).status
            /\ After(id).pinned = Before(id).pinned]_vars

\* C9 amended: a re-confirmed listing keeps a stored status that is one of
\* the seven pipeline statuses and has any other stored status normalized to
\* one of them (a legacy "Visite planifiee" becomes "Visite"); pinned keeps
\* its truth value, a pinned that was never set being written false.
C9_Amended ==
    [][ScanTaken =>
        \A id \in TrackerIds(tracker) \cap dedupIds' :
            /\ Before(id).status \in SeqToSet(STATUSES) =>
                   After(id).status = Before(id).status
            /\ After(id).status \in SeqToSet(STATUSES)
            /\ Before(id).status = "Visite planifiee" => After(id).status = "Visite"
            /\ After(id).pinned = IF Before(id).pinned = "true" THEN "true" ELSE "false"]_vars

C9_Witness ==
    \E i, j \in 1..Len(tracker) :
        /\ tracker[i].id \in dedupIds
        /\ tracker[i].status = "Refuse"
        /\ tracker[i].firstSeenAt < tracker[i].lastSeenAt
        /\ tracker[j].id \in dedupIds
        /\ tracker[j].pinned = "false"

\* The lines of a notes text that the user wrote: every non-blank line,
\* trimmed, that does not start with the move-in label
IsEntryLine(line) ==
    /\ line # <<>>
    /\ Head(line) = "E"
    /\ LET k == SkipWs(line, 2) IN k <= Len(line) /\ line[k] = ":"

UserLines(notes) ==
    LET lines == SplitLines(notes)
        trimmed == [i \in 1..Len(lines) |-> Trim(lines[i])]
        IsUserLine(l) == l # <<>> /\ ~IsEntryLine(l) IN
    SelectSeq(trimmed, IsUserLine)

\* C10: for a re-confirmed listing every user-written line of the notes other
\* than the synthesized move-in line is unchanged by the merge.
C10_UserLinesKept ==
    [][ScanTaken =>
        \A id \in TrackerIds(tracker) \cap dedupIds' :
            UserLines(After(id).notes) = UserLines(Before(id).notes)]_vars

\* C11: firstSeenAt of a tracked listing never changes: for every id that
\* stays in the tracker, every scan and every API operation writes the value
\* the entry was created with.
C11_FirstSeenAtImmutable ==
    [][\A id \in TrackerIds(tracker) \cap TrackerIds(tracker') :
            After(id).firstSeenAt = Before(id).firstSeenAt]_vars

C11_Witness ==
    /\ napi = 1
    /\ \E i, j \in 1..Len(tracker) :
        /\ tracker[i].id \in dedupIds
        /\ tracker[i].firstSeenAt = 1 /\ tracker[i].lastSeenAt = 3
        /\ tracker[j].id \notin dedupIds
        /\ tracker[j].firstSeenAt = 1 /\ tracker[j].missingCount = 2


\* C12: a scan is all-or-nothing on disk: once the scan process has crashed,
\* the tracker, latest-listings, geocode-cache and route-cache documents are
\* all what they were when that scan started.
C12_AllOrNothing ==
    pc = "crashed" =>
        /\ tracker = scanRun.prevTracker
        /\ latest = scanRun.prevLatest
        /\ disk = scanRun.prevDisk

\* C13: deletion by the user is irreversible: an id deleted through
\* deleteListing is never again the id of a tracker entry, whatever the
\* sources report in later scans.
C13_DeletedStaysDeleted == deletedIds \cap TrackerIds(tracker) = {}

\* The fields of a record other than duplicateSources
FieldsOf(item) == [item EXCEPT !.duplicateSources = <<>>]

\* The call deduplicated two reports that have the same non-null key
TwoReportsOfOneKey ==
    /\ fnResult.fn = "dedupeCrossSourceListings"
    /\ Len(fnArgs.items) = 2
    /\ buildCrossSourceDedupKey(fnArgs.items[1]) # NoKey
    /\ buildCrossSourceDedupKey(fnArgs.items[1]) = buildCrossSourceDedupKey(fnArgs.items[2])

\* C14: cross-source deduplication does not depend on the order of the
\* input: for two reports A and B of one key, the calls on [A, B] and on
\* [B, A] both return one record, with the same set of duplicateSources and
\* the same fields, those of the report of higher rank, also when the two
\* ranks are equal.
C14_OrderIndependent ==
    TwoReportsOfOneKey =>
        LET A == fnArgs.items[1]
            B == fnArgs.items[2]
            rankA == listingQualityRank(A, fnArgs.trackedIds)
            rankB == listingQualityRank(B, fnArgs.trackedIds)
            forward == fnResult.value
            backward == dedupeCrossSourceListings(<<B, A>>, fnArgs.trackedIds) IN
        /\ Len(forward) = 1
        /\ Len(backward) = 1
        /\ SeqToSet(forward[1].duplicateSources) = SeqToSet(backward[1].duplicateSources)
        /\ FieldsOf(forward[1]) = FieldsOf(backward[1])
        /\ rankA > rankB => FieldsOf(forward[1]) = FieldsOf(A)
        /\ rankB > rankA => FieldsOf(forward[1]) = FieldsOf(B)

\* The two reports differ by 2.4 against 2.6 rooms and 61 against 64 m2 only
RoomsAndSurfaceApart ==
    /\ Len(fnArgs.items) = 2
    /\ fnArgs.items[1].rooms = 24 /\ fnArgs.items[2].rooms = 26
    /\ fnArgs.items[1].surfaceM2 = 61 /\ fnArgs.items[2].surfaceM2 = 64
    /\ fnArgs.items[1].totalChf = fnArgs.items[2].totalChf

\* C15: two reports of one address and price that differ by 2.4 against 2.6
\* rooms and 61 against 64 m2 get the same cross-source key and are merged
\* into one record.
C15_NearbyValuesMerge ==
    RoomsAndSurfaceApart =>
        /\ fnResult.fn = "buildCrossSourceDedupKey"
              => fnResult.value = buildCrossSourceDedupKey(fnArgs.items[2])
        /\ fnResult.fn = "dedupeCrossSourceListings" => Len(fnResult.value) = 1

\* The step is the second run of the scan on the same input
ScanAgainTaken == fnResult.fn = "none" /\ fnResult'.fn = "main"

\* What the idempotence is about: the same counters, flags, score and key
SameOutcome(a, b) ==
    /\ a.missingCount = b.missingCount
    /\ a.active = b.active
    /\ a.isRemoved = b.isRemoved
    /\ a.display = b.display
    /\ a.score = b.score
    /\ buildCrossSourceDedupKey(a) = buildCrossSourceDedupKey(b)

\* C16 as stated: the reconciliation is idempotent: a second run on the same
\* batch, clock and enrichment results leaves every listing of the tracker
\* with the same missingCount, active, isRemoved, display, score and dedup
\* key as the first run wrote.
C16_Original ==
    [][ScanAgainTaken =>
          \A id \in TrackerIds(tracker) :
              id \in TrackerIds(tracker') /\ SameOutcome(Before(id), After(id))]_vars

\* C16 amended: the second run leaves every listing of the deduplicated
\* batch with the same missingCount, active, isRemoved, display, score and
\* dedup key; a tracked listing that is not in the batch is kept with its
\* missingCount one higher.
C16_Amended ==
    [][ScanAgainTaken =>
          \A id \in TrackerIds(tracker) :
              /\ id \in TrackerIds(tracker')
              /\ id \in dedupIds' => SameOutcome(Before(id), After(id))
              /\ id \notin dedupIds' => After(id).missingCount = Before(id).missingCount + 1]_vars

C16_Witness ==
    /\ fnResult.fn = "main"
    /\ \E i, j \in 1..Len(tracker) :
        /\ tracker[i].id \in dedupIds /\ tracker[i].display
        /\ tracker[j].id \notin dedupIds /\ tracker[j].missingCount = 2 /\ tracker[j].isRemoved

\* The call was made on the listing of the example: standard stage, CHF 1500,
\* 2 rooms, 45 minutes by train, not a studio, no bonus area, under a budget
\* of CHF 1400 and a preferred minimum of 2 rooms
ScoreExample ==
    /\ Len(fnArgs.items) = 1
    /\ fnArgs.items[1].listingStage = ""
    /\ fnArgs.items[1].totalChf = 1500
    /\ fnArgs.items[1].rooms = 20
    /\ fnArgs.items[1].transitMinutes = 45
    /\ fnArgs.items[1].kind # "studio"
    /\ fnArgs.items[1].area = "Montreux"
    /\ fnArgs.config.maxTotalChf = 1400
    /\ fnArgs.config.minRoomsPreferred = 20

\* C17: computeScore on the listing of the example returns 70, made of
\* budget +43, rooms +30 and travel -3, the reasons in that order, and the
\* same on every call with those inputs.
C17_ScoreExample ==
    (fnResult.fn = "computeScore" /\ ScoreExample) =>
        /\ fnResult.value.score = 70
        /\ fnResult.value.reasons = <<[term |-> "Budget", points |-> 43],
                                      [term |-> "Pieces", points |-> 30],
                                      [term |-> "Trajet Liip", points |-> 0 - 3]>>

C17_Witness ==
    /\ fnResult.fn = "computeScore"
    /\ ScoreExample
    /\ fnArgs.items[1].surfaceM2 = 61
    /\ ~fnArgs.config.pearl.enabled

\* C18: the score computeScore returns is between 0 and 100 inclusive, for
\* every listing and configuration.
C18_ScoreWithinBounds ==
    fnResult.fn = "computeScore" =>
        fnResult.value.score >= 0 /\ fnResult.value.score <= 100

\* The call was made on one listing, and isPearl answered
PearlAsked == fnResult.fn = "isPearl" /\ Len(fnArgs.items) = 1

\* The listing meets the pearl minimums of rooms, surface and keyword hits
MeetsPearlMinimums(item, cfg) ==
    /\ Coalesce(item.rooms, 0) >= cfg.pearl.minRooms
    /\ Coalesce(item.surfaceM2, 0) >= cfg.pearl.minSurfaceM2
    /\ item.pearlHits >= cfg.pearl.minHits

\* C19 as stated: a listing priced at maxTotalHardChf is not a pearl; one
\* priced at maxPearlTotalChf, above the hard budget, is a pearl whenever it
\* meets the pearl minimums; one priced above maxPearlTotalChf is not a pearl.
C19_Original ==
    PearlAsked =>
        LET item == fnArgs.items[1]
            cfg == fnArgs.config IN
        /\ item.totalChf = cfg.maxTotalHardChf => ~fnResult.value
        /\ (/\ item.totalChf = cfg.maxPearlTotalChf
            /\ cfg.maxPearlTotalChf > cfg.maxTotalHardChf
            /\ MeetsPearlMinimums(item, cfg)) => fnResult.value
        /\ (item.totalChf # Null /\ item.totalChf > cfg.maxPearlTotalChf) => ~fnResult.value

\* C19 amended: the same, the middle case holding when pearl detection is
\* not switched off in the profile (filters.pearl.enabled is not false).
C19_Amended ==
    PearlAsked =>
        LET item == fnArgs.items[1]
            cfg == fnArgs.config IN
        /\ item.totalChf = cfg.maxTotalHardChf => ~fnResult.value
        /\ (/\ cfg.pearl.enabled
            /\ item.totalChf = cfg.maxPearlTotalChf
            /\ cfg.maxPearlTotalChf > cfg.maxTotalHardChf
            /\ MeetsPearlMinimums(item, cfg)) => fnResult.value
        /\ (item.totalChf # Null /\ item.totalChf > cfg.maxPearlTotalChf) => ~fnResult.value

C19_Witness ==
    /\ PearlAsked
    /\ fnArgs.items[1].totalChf = fnArgs.config.maxPearlTotalChf
    /\ fnArgs.config.maxPearlTotalChf > fnArgs.config.maxTotalHardChf
    /\ fnResult.value

\* C20: when the deduplicated batch of a scan contains the id of a tracker
\* entry, removed and out-of-scope entries included, the scan writes that
\* entry with missingCount 0, active, not removed and removedAt null, and
\* with isNew true exactly when the id was not in the 'all' list of the
\* previous latest snapshot.
C20_ReconfirmedIsReset ==
    [][ScanTaken =>
          \A id \in TrackerIds(tracker) \cap dedupIds' :
              /\ id \in TrackerIds(tracker')
              /\ After(id).missingCount = 0
              /\ After(id).active
              /\ ~After(id).isRemoved
              /\ After(id).removedAt = Null
              /\ After(id).isNew <=> id \notin LatestIds(latest)]_vars

C20_Witness ==
    \E i \in 1..Len(tracker) :
        /\ tracker[i].id \in dedupIds
        /\ tracker[i].firstSeenAt < tracker[i].lastSeenAt
        /\ tracker[i].missingCount = 0
        /\ tracker[i].isNew
        /\ now = tracker[i].lastSeenAt + 1

\* C21: when the deduplicated batch of a scan contains an id that is not in
\* the tracker, the scan creates exactly one entry for it, with the initial
\* status, firstSeenAt the time of the scan, isNew, missingCount 0, active
\* and not removed.
C21_NewEntryCreated ==
    [][ScanTaken =>
          \A id \in dedupIds' \ TrackerIds(tracker) :
              /\ Cardinality({i \in 1..Len(tracker') : tracker'[i].id = id}) = 1
              /\ After(id).status = "A contacter"
              /\ After(id).firstSeenAt = now
              /\ After(id).isNew
              /\ After(id).missingCount = 0
              /\ After(id).active
              /\ ~After(id).isRemoved]_vars

C21_Witness ==
    /\ now = 3
    /\ Len(tracker) = 2
    /\ \E i, j \in 1..Len(tracker) :
        /\ tracker[i].id \in dedupIds
        /\ tracker[i].firstSeenAt = 2 /\ tracker[i].isNew /\ tracker[i].status = "A contacter"
        /\ tracker[j].firstSeenAt = 1

\* The tracked listing is out of the target areas of the profile
OutOfScope(id) == ~isTargetAreaCity(Before(id).area, buildTargetAreaSet(config.areas))

\* The number of entries of the written tracker, other than id, that satisfy
\* the three flags
CountOthers(id, active, removed) ==
    Cardinality({i \in 1..Len(tracker') :
        /\ tracker'[i].id # id
        /\ tracker'[i].display
        /\ tracker'[i].active = active
        /\ removed => tracker'[i].isRemoved})

\* C22: a tracked listing that is absent from the scan and whose area is not
\* one of the target areas of the profile is written inactive, not removed
\* and not displayed, whatever its missingCount, and it is in none of the
\* lists and counts of the latest snapshot.
C22_OutOfScopeInactiveNotRemoved ==
    [][ScanTaken =>
          \A id \in TrackerIds(tracker) \ dedupIds' :
              OutOfScope(id) =>
                  /\ id \in TrackerIds(tracker')
                  /\ ~After(id).active
                  /\ ~After(id).isRemoved
                  /\ ~After(id).display
                  /\ id \notin LatestIds(latest')
                  /\ \A i \in 1..Len(latest'.matching) : latest'.matching[i].id # id
                  /\ \A i \in 1..Len(latest'.newListings) : latest'.newListings[i].id # id
                  /\ latest'.totalCount = CountOthers(id, TRUE, FALSE)
                  /\ latest'.matchingCount = CountOthers(id, TRUE, FALSE)
                  /\ latest'.removedCount = CountOthers(id, FALSE, TRUE)
                  /\ latest'.newCount = Len(latest'.newListings)]_vars

C22_Witness ==
    /\ napi = 1
    /\ \E i \in 1..Len(tracker) :
        /\ tracker[i].id \notin dedupIds
        /\ ~isTargetAreaCity(tracker[i].area, buildTargetAreaSet(config.areas))
        /\ tracker[i].filterReason = "Hors zone suivie"
        /\ tracker[i].missingCount = 2
        /\ ~tracker[i].active /\ ~tracker[i].isRemoved

\* sources.<name> === false for the source of the listing; the profile has a
\* switch for each adapter
SourceDisabled(source) ==
    \/ source = "flatfox.ch" /\ ~config.sources.flatfox
    \/ source = "anibis.ch" /\ ~config.sources.anibis

\* C23: a tracked, in-scope listing that is absent from the scan and whose
\* source is disabled in the profile is written removed by that same scan,
\* without waiting for the threshold.
C23_DisabledSourceRemoved ==
    [][ScanTaken =>
          \A id \in TrackerIds(tracker) \ dedupIds' :
              (~OutOfScope(id) /\ SourceDisabled(Before(id).source)) =>
                  id \in TrackerIds(tracker') /\ After(id).isRemoved]_vars

\* The tracked listing has the composite key of a listing of the
\* deduplicated batch of the scan
DuplicateOfActive(id) ==
    /\ buildCrossSourceDedupKey(Before(id)) # NoKey
    /\ \E other \in dedupIds' :
        /\ other \in TrackerIds(tracker')
        /\ buildCrossSourceDedupKey(After(other)) = buildCrossSourceDedupKey(Before(id))

\* C24: a tracked listing that is not in the deduplicated batch and whose
\* composite key is the key of a listing of that batch is written by the
\* same scan removed, inactive and with filterReason 'Doublon inter-source',
\* even on its first missed scan.
C24_DuplicateRemovedAtOnce ==
    [][ScanTaken =>
          \A id \in TrackerIds(tracker) \ dedupIds' :
              DuplicateOfActive(id) =>
                  /\ id \in TrackerIds(tracker')
                  /\ After(id).isRemoved
                  /\ ~After(id).active
                  /\ After(id).filterReason = "Doublon inter-source"]_vars

\* rooms, surfaceM2 and totalChf of the listing are all null or missing
AllUnknown(item) ==
    IsNullish(item.rooms) /\ IsNullish(item.surfaceM2) /\ IsNullish(item.totalChf)

\* C25: buildCrossSourceDedupKey returns no key for a listing whose rooms,
\* surfaceM2 and totalChf are all unknown (null or missing), and
\* dedupeCrossSourceListings passes such listings through: two of them at one
\* address stay two records.
C25_UnknownListingsNotMerged ==
    (\A i \in 1..Len(fnArgs.items) : AllUnknown(fnArgs.items[i])) =>
        /\ fnResult.fn = "buildCrossSourceDedupKey" => fnResult.value = NoKey
        /\ fnResult.fn = "dedupeCrossSourceListings"
              => Len(fnResult.value) = Len(fnArgs.items)

\* The positions of the scraped records that have the id
Occurrences(items, id) == {i \in 1..Len(items) : items[i].id = id}

\* The first occurrence of the id among those of highest rank
BestOccurrence(items, trackedIds, id) ==
    CHOOSE i \in Occurrences(items, id) :
        \A k \in Occurrences(items, id) :
            \/ listingQualityRank(items[i], trackedIds) > listingQualityRank(items[k], trackedIds)
            \/ listingQualityRank(items[i], trackedIds) = listingQualityRank(items[k], trackedIds)
               /\ i <= k

\* C26: the dedup by id returns exactly one record per distinct id of the
\* scraped batch; for an id that occurs several times it is the occurrence
\* of highest listingQualityRank, the first of them when ranks are equal.
C26_OneRecordPerId ==
    fnResult.fn = "dedupById" =>
        LET items == fnArgs.items
            out == fnResult.value IN
        /\ TrackerIds(out) = TrackerIds(items)
        /\ Len(out) = Cardinality(TrackerIds(items))
        /\ \A k \in 1..Len(out) :
              out[k] = items[BestOccurrence(items, fnArgs.trackedIds, out[k].id)]

C26_Witness ==
    /\ fnResult.fn = "dedupById"
    /\ Len(fnArgs.items) = 3
    /\ \A i \in 1..3 : fnArgs.items[i].id = "a"
    /\ fnArgs.items[1].imageCount = 3
    /\ fnArgs.items[2].imageCount = 4 /\ fnArgs.items[3].imageCount = 4
    /\ fnArgs.items[2].totalChf # fnArgs.items[3].totalChf
    /\ fnResult.value = <<fnArgs.items[2]>>

\* Two records under one composite key, exactly one of them already tracked
OneOfTwoTracked ==
    /\ fnResult.fn = "dedupeCrossSourceListings"
    /\ Len(fnArgs.items) = 2
    /\ buildCrossSourceDedupKey(fnArgs.items[1]) # NoKey
    /\ buildCrossSourceDedupKey(fnArgs.items[1]) = buildCrossSourceDedupKey(fnArgs.items[2])
    /\ Cardinality({i \in 1..2 : fnArgs.items[i].id \in fnArgs.trackedIds}) = 1

\* C27: when two records share a composite key and exactly one of them has
\* an id of the previous tracker, the cross-source dedup keeps the tracked
\* one, whatever the sources, image counts and known fields of the two,
\* and the duplicateSources of the kept record holds both sources.
C27_TrackedSurvives ==
    OneOfTwoTracked =>
        LET t == CHOOSE i \in 1..2 : fnArgs.items[i].id \in fnArgs.trackedIds
            out == fnResult.value IN
        /\ Len(out) = 1
        /\ [out[1] EXCEPT !.duplicateSources = fnArgs.items[t].duplicateSources] = fnArgs.items[t]
        /\ {fnArgs.items[1].source, fnArgs.items[2].source} \subseteq SeqToSet(out[1].duplicateSources)

C27_Witness ==
    /\ OneOfTwoTracked
    /\ fnArgs.trackedIds = {"b"}
    /\ fnArgs.items[1].source = "immobilier.ch" /\ fnArgs.items[2].source = "flatfox.ch"
    /\ listingQualityRank(fnArgs.items[1], {}) > listingQualityRank(fnArgs.items[2], {})
    /\ fnResult.value[1].id = "b"
    /\ fnResult.value[1].duplicateSources = <<"immobilier.ch", "flatfox.ch">>

\* The reasons written by the branches of the second loop that leave before
\* or instead of the evaluated display: out of scope, non-residential object,
\* duplicate of an active listing, Anibis sale, Anibis source disabled
ExitReasons ==
    {"Hors zone suivie", "Objet non residentiel (filtre)", "Doublon inter-source",
     "Annonce vente exclue (Anibis)", "Source Anibis desactivee"}

\* A listing went through one of the two loops and its evaluation was written
EvaluationWritten ==
    /\ fnResult.fn \in {"mergePresent", "mergeAbsent"}
    /\ fnResult.value.filterReason \notin ExitReasons

\* The listing the gates were computed on: the scraped item, or the old entry
EvaluatedListing ==
    IF fnResult.fn = "mergePresent" THEN fnArgs.items[1] ELSE fnResult.old

GateOrder(e) ==
    <<[fails |-> e.excludedType, reason |-> "Type exclu (chambre/colocation)"],
      [fails |-> ~e.locationEligible, reason |-> "Hors zones ciblees"],
      [fails |-> ~e.nonSpeculativeEligible, reason |-> "Bailleur hors liste non speculative"],
      [fails |-> e.listingStage = "off_market", reason |-> "Signal off-market non prioritaire"],
      [fails |-> ~e.aboveMinBudget, reason |-> "En dessous de CHF min"],
      [fails |-> ~e.sizeEligible, reason |-> "Taille non prioritaire"],
      [fails |-> ~e.publicationEligible, reason |-> "Annonce trop ancienne"],
      [fails |-> ~(e.withinHardBudget \/ e.isPearl), reason |-> "Au-dessus de CHF max"]>>

\* filterReason is the reason of the first gate of the order that fails
NamesFirstFailingGate(e) ==
    \E k \in 1..Len(GateOrder(e)) :
        /\ GateOrder(e)[k].fails
        /\ \A j \in 1..(k - 1) : ~GateOrder(e)[j].fails
        /\ e.filterReason = GateOrder(e)[k].reason

\* An entry was written by one of the two loops of main
EntryWritten == fnResult.fn \in {"mergePresent", "mergeAbsent"}

\* C29 as stated: in every entry written by a scan, filterReason is the
\* empty string exactly when display is true, and when display is false it
\* names the first failing gate in the order type exclusion, location,
\* landlord, off-market-suppressed, min-budget, size, publication age, hard
\* budget.
C29_Original ==
    EntryWritten =>
        /\ (fnResult.value.filterReason = "") = fnResult.value.display
        /\ ~fnResult.value.display => NamesFirstFailingGate(fnResult.value)

\* C29 amended: filterReason is the empty string exactly when display is
\* true; an entry whose evaluation is written and whose display is false
\* names the first failing gate of that order; an absent entry written by
\* one of the leaving branches has display false and the reason of its branch.
C29_Amended ==
    EntryWritten =>
        /\ (fnResult.value.filterReason = "") = fnResult.value.display
        /\ EvaluationWritten /\ ~fnResult.value.display => NamesFirstFailingGate(fnResult.value)
        /\ ~EvaluationWritten =>
              /\ fnResult.fn = "mergeAbsent"
              /\ ~fnResult.value.display
              /\ fnResult.value.filterReason \in ExitReasons

C29_Witness ==
    /\ EvaluationWritten
    /\ fnResult.fn = "mergeAbsent"
    /\ ~fnResult.value.aboveMinBudget /\ ~fnResult.value.sizeEligible
    /\ ~fnResult.value.publicationEligible
    /\ fnResult.value.filterReason = "En dessous de CHF min"

\* The date the claimed age is counted from: publishedAt, else firstSeenAt
AgeReference(e) == IF ~IsNullish(e.publishedAt) THEN e.publishedAt ELSE e.firstSeenAt

\* C30: publicationEligible is computed from the age since publishedAt, or
\* since firstSeenAt when publishedAt is missing: a tracked listing without
\* publishedAt first seen more than maxPublishedAgeDays ago is not
\* publication-eligible, and only a listing with neither date is eligible by
\* default.
C30_AgeFallsBackOnFirstSeenAt ==
    EvaluationWritten =>
        LET e == fnResult.value IN
        e.publicationEligible =
            IF IsNullish(AgeReference(e)) THEN TRUE
            ELSE publishedAgeDays(AgeReference(e), FnToday)
                    <= resolveMaxPublishedAgeDays(fnArgs.config)

\* The listing of the call already had an entry in the tracker
WasTracked == fnResult.fn = "mergeAbsent" \/ fnResult.tracked

\* C31: during a scan the geocoder and the route planners are asked for a
\* listing only if its display is true in this scan; for a listing whose
\* display is false no request is made and the distanceKm, driveMinutes and
\* transitMinutes stored on its entry are kept as they were.
C31_EnrichmentOnlyWhenDisplayed ==
    EntryWritten =>
        /\ fnResult.requested => fnResult.value.display
        /\ ~fnResult.value.display /\ WasTracked =>
              /\ fnResult.value.distanceKm = fnResult.old.distanceKm
              /\ fnResult.value.driveMinutes = fnResult.old.driveMinutes
              /\ fnResult.value.transitMinutes = fnResult.old.transitMinutes

C31_Witness ==
    /\ EntryWritten
    /\ fnResult.fn = "mergePresent" /\ fnResult.tracked
    /\ fnResult.old.display /\ fnResult.old.distanceKm # Null
    /\ ~fnResult.value.display /\ ~fnResult.requested
    /\ fnResult.value.distanceKm = fnResult.old.distanceKm
    /\ fnResult.value.transitMinutes = fnResult.old.transitMinutes

\* A route planner was called
RouteCalled == fnResult.fn \in {"fetchDrivingMinutes", "fetchTransitMinutes"}

\* The entry of the key is younger than twelve hours and holds minutes
FreshAndKnown ==
    /\ fnArgs.entry # NoEntry
    /\ RouteNow - fnArgs.entry.updatedAt < TravelCacheTtlHours
    /\ fnArgs.entry.minutes # Null

\* C32: fetchDrivingMinutes and fetchTransitMinutes return the cached
\* minutes without a request when the entry of the key is younger than 12
\* hours and non-null; otherwise they send the request, and whenever it
\* gives no duration they return the last cached value of the key if there
\* is one, else null, and leave the cached value in place.
C32_StaleValueSurvivesFailedFetch ==
    RouteCalled =>
        /\ FreshAndKnown =>
              ~fnResult.value.requested /\ fnResult.value.minutes = fnArgs.entry.minutes
        /\ ~FreshAndKnown => fnResult.value.requested
        /\ fnResult.value.requested
           /\ (fnArgs.answer.throws \/ IsNullish(fnArgs.answer.duration)
                                    \/ fnArgs.answer.duration = 0) =>
              /\ fnResult.value.minutes =
                    IF fnArgs.entry = NoEntry THEN Null ELSE fnArgs.entry.minutes
              /\ fnArgs.entry # NoEntry /\ fnArgs.entry.minutes # Null =>
                    fnResult.value.entry.minutes = fnArgs.entry.minutes

\* The times at which a request went to Nominatim, in order
RequestTimes == SelectSeq(geo.sent, LAMBDA c : ~c.cached)

\* C33: in one scan process two consecutive requests of geocodeAddress to
\* Nominatim start at least 1100 ms apart, whether the earlier one
\* succeeded, gave no result or failed; a query whose coordinates are in
\* the geocode cache sends no request.
C33_RequestsSpaced ==
    \A i \in 1..(Len(RequestTimes) - 1) :
        RequestTimes[i + 1].at - RequestTimes[i].at >= GeocodeSpacing

\* A file that is missing or malformed: anything but a JSON object whose
\* listings / all member is an array
Damaged(file) == file # WellFormed

ScanRead(files) == fnResult.fn = "main" /\ fnResult.files = files

\* C34: when the tracker file or the latest-listings file a scan reads is
\* missing or malformed (unreadable, not JSON, or JSON of the wrong shape),
\* the scan ends with exit code 0; with a damaged tracker file the tracker it
\* writes holds exactly the listings of the batch, each of them new.
C34_DamagedFilesReadAsEmpty ==
    \A files \in FilePairs :
        (ScanRead(files) /\ (Damaged(files.trackerFile) \/ Damaged(files.latestFile)))
            => /\ fnResult.exit = 0
               /\ Damaged(files.trackerFile) =>
                    /\ TrackerIds(tracker) = fnResult.batch
                    /\ \A i \in 1..Len(tracker) : tracker[i].isNew

\* The listings main collected from the requests that did not fail
Remaining(offered, failed) ==
    {offered[i].id : i \in {j \in 1..Len(offered) : FetchOf(offered[j]) \notin failed}}

SeenByLastScan(id) ==
    \E i \in 1..Len(tracker) :
        tracker[i].id = id /\ tracker[i].active /\ tracker[i].lastSeenAt = now - 1

\* C35: a scan in which requests of an adapter fail (one area of a source,
\* or the whole source) ends with exit code 0, has written the four documents,
\* and has reconciled what the other requests returned: those listings were
\* collected, and every listing kept by the deduplication is in the tracker,
\* active and seen at this scan.
C35_FailingAdapterNeverAborts ==
    (fnResult.fn = "main" /\ fnResult.failed # {})
        => /\ fnResult.exit = 0
           /\ \A d \in Docs : disk[d] = nscans
           /\ Remaining(fnResult.offered, fnResult.failed) \subseteq reportedIds
           /\ \A id \in dedupIds : SeenByLastScan(id)

\* A scan in which every flatfox.ch request failed has created the anibis.ch
\* listing and counted the tracked flatfox.ch listing as missing
C35_Witness ==
    /\ fnResult.fn = "main"
    /\ fnResult.failed = {f \in Fetches : f.source = "flatfox.ch"}
    /\ \E i \in 1..Len(fnResult.offered) : fnResult.offered[i].source = "flatfox.ch"
    /\ fnResult.exit = 0
    /\ \E i \in 1..Len(tracker) :
         tracker[i].source = "anibis.ch" /\ tracker[i].firstSeenAt = now - 1
    /\ \E i \in 1..Len(tracker) :
         tracker[i].source = "flatfox.ch" /\ tracker[i].missingCount = 1

\* The scan process writes tracker.json
TrackerWritten == pc = "writeTracker" /\ pc' = "writeLatest"

\* What the server changed on listing id since the scan read the tracker is
\* in the tracker the scan writes
EditCarried(id) ==
    LET read == EntryOf(scanRun.prevTracker, id) IN
    IF id \notin TrackerIds(tracker)
    THEN id \notin TrackerIds(tracker')
    ELSE LET edited == EntryOf(tracker, id) IN
         id \in TrackerIds(tracker') =>
            LET written == EntryOf(tracker', id) IN
            /\ edited.status # read.status => written.status = edited.status
            /\ edited.pinned # read.pinned => written.pinned = edited.pinned
            /\ edited.notes # read.notes => UserLines(written.notes) = UserLines(edited.notes)

\* C36: when a scan writes tracker.json, every change that updateStatus,
\* togglePin or deleteListing made to a listing after the scan read the
\* tracker is in what it writes: the new status and notes, the new pin, and
\* a deleted listing is absent.
C36_EditsSurviveTheScan ==
    [][TrackerWritten => \A id \in TrackerIds(scanRun.prevTracker) : EditCarried(id)]_vars

\* C37: the server never has two scan child processes of one profile alive
\* at once, whatever the order of the POST /api/run-scan and
\* POST /api/run-scan-all requests.
C37_OneScanPerProfile ==
    \A c1, c2 \in server.children : c1.profile = c2.profile => c1 = c2

\* A slug that is empty or, trimmed and in lower case, does not match
\* [a-z0-9-]+
InvalidSlug(input) == ~IsSlug(toLowerCase(trim(input)))

ProfileRequestAnswered ==
    /\ server'.requests = server.requests + 1
    /\ server'.http.op \in {"create", "update", "delete"}

\* C39: a profile create, update or delete request whose slug is invalid is
\* answered with an error status and leaves the directory of every profile
\* as it was.
C39_InvalidSlugTouchesNoProfile ==
    [][(ProfileRequestAnswered /\ InvalidSlug(server'.http.slug))
          => /\ server'.http.status >= 400
             /\ server'.profiles = server.profiles]_vars

\* The server answers updateStatus, togglePin or deleteListing
ApiAnswered ==
    /\ nscans' = nscans
    /\ fnResult'.fn \in {"updateStatus", "togglePin", "deleteListing"}

\* The listings of other ids are the same, in the same order
OthersUntouched(before, after, id) == WithoutId(after, id) = WithoutId(before, id)

LifecycleKept(before, after) ==
    \A i \in 1..Len(after) :
        /\ after[i].id \in TrackerIds(before)
        /\ LET b == EntryOf(before, after[i].id) IN
           /\ after[i].active = b.active
           /\ after[i].isRemoved = b.isRemoved
           /\ after[i].missingCount = b.missingCount

\* C38: an updateStatus, togglePin or deleteListing request leaves active,
\* isRemoved and missingCount of every tracked listing as they were, leaves
\* the listings of every other id as they were in the tracker and in the
\* three lists of the snapshot, and for an id that is not tracked answers 404
\* and leaves the tracker and the snapshot unchanged.
C38_ApiTouchesOnlyItsTarget ==
    [][ApiAnswered =>
          LET id == fnResult'.id IN
          /\ LifecycleKept(tracker, tracker')
          /\ OthersUntouched(tracker, tracker', id)
          /\ OthersUntouched(latest.all, latest'.all, id)
          /\ OthersUntouched(latest.matching, latest'.matching, id)
          /\ OthersUntouched(latest.newListings, latest'.newListings, id)
          /\ id \notin TrackerIds(tracker) =>
                /\ fnResult'.status = 404
                /\ tracker' = tracker
                /\ latest' = latest]_vars

\* A listing was pinned while another tracked listing is counted missing
C38_Witness ==
    /\ fnResult.fn = "togglePin"
    /\ fnResult.status = 200
    /\ \E i, j \in 1..Len(tracker) :
         /\ tracker[i].id = fnResult.id
         /\ tracker[i].pinned = "true"
         /\ tracker[j].id # fnResult.id
         /\ tracker[j].missingCount = 1

CountWhere(q, Test(_)) == Cardinality({i \in 1..Len(q) : Test(q[i])})

\* Every entry of the first list is an entry of the second
ListedIn(part, whole) ==
    \A i \in 1..Len(part) : \E j \in 1..Len(whole) : whole[j] = part[i]

\* C40: in the latest-listings snapshot totalCount is the number of entries
\* of all that are active and not removed, removedCount the number of
\* removed entries of all, matchingCount the length of matching, newCount
\* the length of newListings, every entry of newListings is in matching and
\* every entry of matching is in all.
C40_SnapshotConsistent ==
    /\ latest.totalCount = CountWhere(latest.all, LAMBDA x : x.active /\ ~x.isRemoved)
    /\ latest.removedCount = CountWhere(latest.all, LAMBDA x : x.isRemoved)
    /\ latest.matchingCount = Len(latest.matching)
    /\ latest.newCount = Len(latest.newListings)
    /\ ListedIn(latest.newListings, latest.matching)
    /\ ListedIn(latest.matching, latest.all)

\* A listing was deleted from a snapshot that holds a removed listing and an
\* active one, all three of them written by a scan
C40_Witness ==
    /\ deletedIds # {}
    /\ deletedIds \cap LatestIds(latest) = {}
    /\ latest.removedCount >= 1
    /\ latest.totalCount >= 1
    /\ Len(latest.all) = latest.removedCount + latest.totalCount

=========================================================================
